---- MODULE Spec2Model ----
(***************************************************************************)
(* A model of the fast-sudoku puzzle core: grid, propagator, solver,       *)
(* technique engine, difficulty evaluator and generator.                   *)
(*                                                                         *)
(* Representation.  A Grid is a record [values, candidates]; both fields   *)
(* are functions over the cell indices 0..SIZE-1.  A candidate mask (u16,  *)
(* bit d-1 set for digit d) is written as the set of its digits, so        *)
(* `m & !(1 << (d-1))` is m \ {d}, `a | b` is a \cup b, count_ones is      *)
(* Cardinality and trailing_zeros + 1 is the least element.                *)
(*                                                                         *)
(* The board order is the definition BOX (the side of a box).  The program *)
(* fixes it to 3 (`row / 3`, 9 digits, 81 cells); every definition below   *)
(* is written in terms of BOX, SIDE = BOX*BOX and SIZE = SIDE*SIDE.        *)
(***************************************************************************)
EXTENDS Integers, FiniteSets, Sequences, TLC

\* what the operating system would seed an unseeded generator with
VARIABLE entropy

(***************************************************************************)
(* Bounds of the model.                                                    *)
(***************************************************************************)

BOX == 2

SIDE == BOX * BOX
SIZE == SIDE * SIDE
Cells == 0..(SIZE - 1)
Digits == 1..SIDE
FULL == Digits

Min(S) == CHOOSE x \in S : \A y \in S : x <= y
Max(S) == CHOOSE x \in S : \A y \in S : x >= y
Abs(x) == IF x < 0 THEN -x ELSE x

(***************************************************************************)
(* utils: unit tables and peers.                                           *)
(***************************************************************************)
RowOf(i) == i \div SIDE
ColOf(i) == i % SIDE
BoxOf(i) == (RowOf(i) \div BOX) * BOX + (ColOf(i) \div BOX)

ROWS == [r \in 0..(SIDE - 1) |-> [k \in 1..SIDE |-> r * SIDE + (k - 1)]]
COLS == [c \in 0..(SIDE - 1) |-> [k \in 1..SIDE |-> (k - 1) * SIDE + c]]
BOXES == [b \in 0..(SIDE - 1) |->
            [k \in 1..SIDE |-> ((b \div BOX) * BOX + ((k - 1) \div BOX)) * SIDE
                               + ((b % BOX) * BOX) + ((k - 1) % BOX)]]

\* ROWS.iter().chain(COLS.iter()).chain(BOXES.iter())
UNITS == [u \in 1..(3 * SIDE) |->
            IF u <= SIDE THEN ROWS[u - 1]
            ELSE IF u <= 2 * SIDE THEN COLS[u - 1 - SIDE]
            ELSE BOXES[u - 1 - 2 * SIDE]]

get_peers(cell) ==
  {p \in Cells : p # cell /\ (RowOf(p) = RowOf(cell) \/ ColOf(p) = ColOf(cell)
                                \/ BoxOf(p) = BoxOf(cell))}

(***************************************************************************)
(* grid.rs                                                                 *)
(***************************************************************************)
Grid_new == [values |-> [i \in Cells |-> 0], candidates |-> [i \in Cells |-> FULL]]

set_value(grid, index, value) ==
  [values |-> [grid.values EXCEPT ![index] = value],
   candidates |-> [grid.candidates EXCEPT ![index] = {}]]

is_solved(grid) == \A i \in Cells : grid.values[i] # 0

\* to_digit with a table that ends at "8"
to_digit_short(c) ==
  CASE c = "0" -> 0 [] c = "1" -> 1 [] c = "2" -> 2 [] c = "3" -> 3
    [] c = "4" -> 4 [] c = "5" -> 5 [] c = "6" -> 6 [] c = "7" -> 7
    [] c = "8" -> 8 [] OTHER -> -1

\* char::to_digit(10): the digit of a decimal character, -1 for None
to_digit(c) ==
  CASE c = "0" -> 0 [] c = "1" -> 1 [] c = "2" -> 2 [] c = "3" -> 3
    [] c = "4" -> 4 [] c = "5" -> 5 [] c = "6" -> 6 [] c = "7" -> 7
    [] c = "8" -> 8 [] c = "9" -> 9 [] OTHER -> -1

\* std::char::from_digit(v, 10).unwrap() for v in 0..9
from_digit(v) ==
  CASE v = 0 -> "0" [] v = 1 -> "1" [] v = 2 -> "2" [] v = 3 -> "3"
    [] v = 4 -> "4" [] v = 5 -> "5" [] v = 6 -> "6" [] v = 7 -> "7"
    [] v = 8 -> "8" [] v = 9 -> "9"

\* A string is a sequence of characters; s[i + 1] is the character at index i.
RECURSIVE from_string_loop(_, _, _)
from_string_loop(grid, s, i) ==
  IF i >= Len(s) \/ i >= SIZE THEN grid
  ELSE LET d == to_digit(s[i + 1]) IN
       IF d > 0 THEN from_string_loop(set_value(grid, i, d), s, i + 1)
       ELSE from_string_loop(grid, s, i + 1)

\* from_string that gives up on a string that is not SIZE characters long
from_string_strict(s) ==
  IF Len(s) # SIZE THEN Grid_new ELSE from_string_loop(Grid_new, s, 0)

from_string(s) == from_string_loop(Grid_new, s, 0)

to_string(grid) ==
  [k \in 1..SIZE |-> IF grid.values[k - 1] = 0 THEN "." ELSE from_digit(grid.values[k - 1])]

(***************************************************************************)
(* solver.rs                                                               *)
(***************************************************************************)
\* update_candidates_after_move that goes on to the last cell after a mask
\* has become zero
update_candidates_after_move_no_stop(grid, cell, val) ==
  LET hit == {i \in Cells : grid.values[i] = 0
                /\ (RowOf(i) = RowOf(cell) \/ ColOf(i) = ColOf(cell) \/ BoxOf(i) = BoxOf(cell))}
      zero == {i \in hit : grid.candidates[i] \ {val} = {}}
  IN [grid |-> [values |-> grid.values,
                candidates |-> [i \in Cells |->
                   IF i \in hit THEN grid.candidates[i] \ {val}
                   ELSE grid.candidates[i]]],
      ok |-> zero = {}]

\* Returns [grid, ok]: the grid after the call and the returned bool.  The
\* loop runs over the cells in index order and returns false at the first
\* empty cell of the three units whose mask becomes zero; cells after it
\* are not reached.
update_candidates_after_move(grid, cell, val) ==
  LET hit == {i \in Cells : grid.values[i] = 0
                /\ (RowOf(i) = RowOf(cell) \/ ColOf(i) = ColOf(cell) \/ BoxOf(i) = BoxOf(cell))}
      zero == {i \in hit : grid.candidates[i] \ {val} = {}}
      stop == IF zero = {} THEN SIZE ELSE Min(zero)
  IN [grid |-> [values |-> grid.values,
                candidates |-> [i \in Cells |->
                   IF i \in hit /\ i <= stop THEN grid.candidates[i] \ {val}
                   ELSE grid.candidates[i]]],
      ok |-> zero = {}]

RECURSIVE update_candidates_loop(_, _)
update_candidates_loop(grid, i) ==
  IF i >= SIZE THEN grid
  ELSE IF grid.values[i] # 0
       THEN update_candidates_loop(
              update_candidates_after_move(grid, i, grid.values[i]).grid, i + 1)
       ELSE update_candidates_loop(grid, i + 1)

\* update_candidates that resets only the exhausted masks
update_candidates_lazy_reset(grid) ==
  update_candidates_loop(
    [values |-> grid.values,
     candidates |-> [i \in Cells |->
        IF grid.candidates[i] = {} THEN FULL ELSE grid.candidates[i]]], 0)

update_candidates(grid) ==
  update_candidates_loop(
    [values |-> grid.values, candidates |-> [i \in Cells |-> FULL]], 0)

\* The MRV scan shared by solve_recursive and count_solutions: the loop
\* returns (dead) at the first empty cell with no candidate, breaks at the
\* first with one candidate, and otherwise keeps the first cell with the
\* fewest candidates; best = SIZE when no cell is empty.
select_cell(grid) ==
  LET empty == {i \in Cells : grid.values[i] = 0}
      c0 == {i \in empty : grid.candidates[i] = {}}
      c1 == {i \in empty : Cardinality(grid.candidates[i]) = 1}
      first0 == IF c0 = {} THEN SIZE ELSE Min(c0)
      first1 == IF c1 = {} THEN SIZE ELSE Min(c1)
  IN IF first0 < first1 THEN [dead |-> TRUE, best_cell |-> SIZE]
     ELSE IF first1 < SIZE THEN [dead |-> FALSE, best_cell |-> first1]
     ELSE IF empty = {} THEN [dead |-> FALSE, best_cell |-> SIZE]
     ELSE LET mc == Min({Cardinality(grid.candidates[i]) : i \in empty})
          IN [dead |-> FALSE,
              best_cell |-> Min({i \in empty : Cardinality(grid.candidates[i]) = mc})]

\* next_grid after `next_grid.values[best_cell] = digit` and the propagation
try_digit(grid, best_cell, digit) ==
  update_candidates_after_move(
    [grid EXCEPT !.values[best_cell] = digit], best_cell, digit)

\* Returns [ok, grid]: the returned bool and the caller's grid afterwards
\* (overwritten by the solved child on success, untouched on failure).
RECURSIVE solve_recursive(_)
RECURSIVE solve_digits(_, _, _)
solve_digits(grid, best_cell, digit) ==
  IF digit > SIDE THEN [ok |-> FALSE, grid |-> grid]
  ELSE IF digit \in grid.candidates[best_cell]
       THEN LET next == try_digit(grid, best_cell, digit)
                sub == solve_recursive(next.grid)
            IN IF next.ok /\ sub.ok THEN [ok |-> TRUE, grid |-> sub.grid]
               ELSE solve_digits(grid, best_cell, digit + 1)
       ELSE solve_digits(grid, best_cell, digit + 1)

solve_recursive(grid) ==
  LET s == select_cell(grid)
  IN IF s.dead THEN [ok |-> FALSE, grid |-> grid]
     ELSE IF s.best_cell = SIZE THEN [ok |-> TRUE, grid |-> grid]
     ELSE solve_digits(grid, s.best_cell, 1)

\* Option<Grid>: [some, grid]
solve(grid) ==
  LET r == solve_recursive(update_candidates(grid))
  IN [some |-> r.ok, grid |-> r.grid]

\* Returns the counter after the call.
RECURSIVE count_solutions(_, _)
RECURSIVE count_digits(_, _, _, _)
count_digits(grid, best_cell, digit, count) ==
  IF digit > SIDE THEN count
  ELSE IF digit \in grid.candidates[best_cell]
       THEN LET next == try_digit(grid, best_cell, digit)
                c == IF next.ok THEN count_solutions(next.grid, count) ELSE count
            IN \* with c > 1 every later call returns at once
               IF c > 1 THEN c ELSE count_digits(grid, best_cell, digit + 1, c)
       ELSE count_digits(grid, best_cell, digit + 1, count)

count_solutions(grid, count) ==
  IF count > 1 THEN count
  ELSE LET s == select_cell(grid)
       IN IF s.dead THEN count
          ELSE IF s.best_cell = SIZE THEN count + 1
          ELSE count_digits(grid, s.best_cell, 1, count)

is_unique(grid) == count_solutions(update_candidates(grid), 0) = 1

\* check_uniqueness_after_removal without the step that forbids removed_val
check_uniqueness_keeps_digit(grid, cell, removed_val) ==
  LET g == update_candidates(grid)
  IN IF g.candidates[cell] = {} THEN TRUE
     ELSE solve_recursive(g).ok = FALSE

check_uniqueness_after_removal(grid, cell, removed_val) ==
  LET g0 == update_candidates(grid)
      g == [g0 EXCEPT !.candidates[cell] = @ \ {removed_val}]
  IN IF g.candidates[cell] = {} THEN TRUE
     ELSE solve_recursive(g).ok = FALSE

(***************************************************************************)
(* techniques.rs                                                           *)
(*                                                                         *)
(* Option<Hint> is a record with the field `some`; eliminations and        *)
(* placements are sequences of <<cell, digit>> in the order the code       *)
(* pushes them.  Every unit table lists its cells in ascending index       *)
(* order, so a scan of a unit is a scan in ascending cell index.           *)
(***************************************************************************)
None == [some |-> FALSE]
Hint(difficulty, technique, eliminations, placements) ==
  [some |-> TRUE, difficulty |-> difficulty, technique |-> technique,
   eliminations |-> eliminations, placements |-> placements]

\* `if let Some(h) = a { return Some(h); }` followed by b
or_else(a, b) == IF a.some THEN a ELSE b

RECURSIVE SeqOfSet(_)
SeqOfSet(S) == IF S = {} THEN << >> ELSE <<Min(S)>> \o SeqOfSet(S \ {Min(S)})

RECURSIVE Flatten(_)
Flatten(ss) == IF ss = << >> THEN << >> ELSE Head(ss) \o Flatten(Tail(ss))

\* for cell in cells { for d in 1..=9 { if d in D[cell] { push((cell, d)) } } }
PushAll(cells, D) ==
  Flatten([k \in 1..Len(cells) |->
             LET ds == SeqOfSet(D[cells[k]])
             IN [j \in 1..Len(ds) |-> <<cells[k], ds[j]>>]])

\* for cell in cells { if cell in P { push((cell, d)) } }
PushDigit(cells, d, P) ==
  LET keep == SelectSeq(cells, LAMBDA cell : cell \in P) IN [k \in 1..Len(keep) |-> <<keep[k], d>>]

UnitSet(unit) == {unit[k] : k \in 1..SIDE}
UnionOf(f, S) == UNION {f[x] : x \in S}

\* The order in which nested loops i < j < k < l visit their index tuples:
\* A comes before B when the least index they differ in belongs to A.
LexLess(A, B) == Min((A \ B) \cup (B \ A)) \in A
LexFirst(SS) == CHOOSE A \in SS : \A B \in SS \ {A} : LexLess(A, B)
Combos(S, size) == {T \in SUBSET S : Cardinality(T) = size}

\* grid.values[cell] == 0 && (grid.candidates[cell] >> (d - 1)) & 1 == 1
has_candidate(grid, cell, d) == grid.values[cell] = 0 /\ d \in grid.candidates[cell]

get_candidates(grid, cell) == SeqOfSet(grid.candidates[cell])

\* detect_naked_single that takes the bit index for the digit (no + 1)
detect_naked_single_zero_based(grid) ==
  LET found == {i \in Cells : grid.values[i] = 0 /\ Cardinality(grid.candidates[i]) = 1}
  IN IF found = {} THEN None
     ELSE LET i == Min(found)
          IN Hint(1, "naked_single", << >>, << <<i, Min(grid.candidates[i]) - 1>> >>)

detect_naked_single(grid) ==
  LET found == {i \in Cells : grid.values[i] = 0 /\ Cardinality(grid.candidates[i]) = 1}
  IN IF found = {} THEN None
     ELSE LET i == Min(found)
          IN Hint(1, "naked_single", << >>, << <<i, Min(grid.candidates[i])>> >>)

\* The count the inner loop ends with for a unit and a digit: 0 when the
\* digit is placed in the unit, else the number of empty cells offering it.
hidden_single_count(grid, unit, d) ==
  IF \E k \in 1..SIDE : grid.values[unit[k]] = d THEN 0
  ELSE Cardinality({c \in UnitSet(unit) : has_candidate(grid, c, d)})

detect_hidden_single(grid) ==
  LET hitUnits == {u \in 1..(3 * SIDE) :
                     \E d \in Digits : hidden_single_count(grid, UNITS[u], d) = 1}
  IN IF hitUnits = {} THEN None
     ELSE LET unit == UNITS[Min(hitUnits)]
              d == Min({e \in Digits : hidden_single_count(grid, unit, e) = 1})
              last_pos == CHOOSE c \in UnitSet(unit) : has_candidate(grid, c, d)
          IN Hint(7, "hidden_single", << >>, << <<last_pos, d>> >>)

\* naked_subset_eliminations that pushes every digit of the subset for
\* every other empty cell, whether the cell offers it or not
naked_subset_eliminations_unmasked(grid, empty_cells, subset) ==
  LET union_candidates == UnionOf(grid.candidates, subset)
  IN PushAll(SeqOfSet(empty_cells \ subset),
             [cell \in Cells |-> union_candidates])

naked_subset_eliminations(grid, empty_cells, subset) ==
  LET union_candidates == UnionOf(grid.candidates, subset)
  IN PushAll(SeqOfSet(empty_cells \ subset),
             [cell \in Cells |-> grid.candidates[cell] \cap union_candidates])

naked_subset_hits(grid, unit, size) ==
  LET empty_cells == {c \in UnitSet(unit) : grid.values[c] = 0}
  IN {subset \in Combos(empty_cells, size) :
        /\ Cardinality(UnionOf(grid.candidates, subset)) = size
        /\ naked_subset_eliminations(grid, empty_cells, subset) # << >>}

detect_naked_subset(grid, size) ==
  LET difficulty == CASE size = 2 -> 9 [] size = 3 -> 22 [] size = 4 -> 35 [] OTHER -> 0
      technique == CASE size = 2 -> "naked_pairs" [] size = 3 -> "naked_triples"
                     [] size = 4 -> "naked_quads" [] OTHER -> ""
      hitUnits == {u \in 1..(3 * SIDE) : naked_subset_hits(grid, UNITS[u], size) # {}}
  IN IF size \notin {2, 3, 4} \/ hitUnits = {} THEN None
     ELSE LET unit == UNITS[Min(hitUnits)]
              empty_cells == {c \in UnitSet(unit) : grid.values[c] = 0}
              subset == LexFirst(naked_subset_hits(grid, unit, size))
          IN Hint(difficulty, technique,
                  naked_subset_eliminations(grid, empty_cells, subset), << >>)

\* digit_cells[d]: the cells of the unit (the code keeps their positions in
\* the unit) that are empty and offer d
digit_cells(grid, unit, d) == {c \in UnitSet(unit) : has_candidate(grid, c, d)}

hidden_subset_eliminations(grid, unit, digits) ==
  LET union_cells == UNION {digit_cells(grid, unit, d) : d \in digits}
  IN PushAll(SeqOfSet(union_cells), [cell \in Cells |-> grid.candidates[cell] \ digits])

hidden_subset_hits(grid, unit, size) ==
  LET candidate_digits == {d \in Digits :
                             /\ Cardinality(digit_cells(grid, unit, d)) > 0
                             /\ Cardinality(digit_cells(grid, unit, d)) <= size}
  IN {digits \in Combos(candidate_digits, size) :
        /\ Cardinality(UNION {digit_cells(grid, unit, d) : d \in digits}) = size
        /\ hidden_subset_eliminations(grid, unit, digits) # << >>}

detect_hidden_subset(grid, size) ==
  LET difficulty == CASE size = 2 -> 18 [] size = 3 -> 28 [] size = 4 -> 42 [] OTHER -> 0
      technique == CASE size = 2 -> "hidden_pairs" [] size = 3 -> "hidden_triples"
                     [] size = 4 -> "hidden_quads" [] OTHER -> ""
      hitUnits == {u \in 1..(3 * SIDE) : hidden_subset_hits(grid, UNITS[u], size) # {}}
  IN IF size \notin {2, 3, 4} \/ hitUnits = {} THEN None
     ELSE LET unit == UNITS[Min(hitUnits)]
              digits == LexFirst(hidden_subset_hits(grid, unit, size))
          IN Hint(difficulty, technique,
                  hidden_subset_eliminations(grid, unit, digits), << >>)

\* The first hit of a scan over the pairs <<a, b>> of a set, a outermost.
FirstPair(hits) ==
  LET a == Min({h[1] : h \in hits})
  IN <<a, Min({h[2] : h \in {g \in hits : g[1] = a}})>>

candidates_in(grid, unit, d) == {c \in UnitSet(unit) : has_candidate(grid, c, d)}

\* eliminations along a line (or box) for the cells that are not in `keep`
line_eliminations(grid, unit, keep, d) ==
  PushDigit(unit, d, {cell \in Cells : cell \notin keep /\ has_candidate(grid, cell, d)})

pointing_row(grid, box_idx, d) ==
  LET in_box == candidates_in(grid, BOXES[box_idx], d)
  IN IF Cardinality(in_box) >= 2 /\ Cardinality(in_box) <= 3
        /\ \A c \in in_box : RowOf(c) = RowOf(Min(in_box))
     THEN line_eliminations(grid, ROWS[RowOf(Min(in_box))], in_box, d)
     ELSE << >>

pointing_col(grid, box_idx, d) ==
  LET in_box == candidates_in(grid, BOXES[box_idx], d)
  IN IF Cardinality(in_box) >= 2 /\ Cardinality(in_box) <= 3
        /\ \A c \in in_box : ColOf(c) = ColOf(Min(in_box))
     THEN line_eliminations(grid, COLS[ColOf(Min(in_box))], in_box, d)
     ELSE << >>

detect_pointing_pairs(grid) ==
  LET hits == {h \in (0..(SIDE - 1)) \X Digits :
                 pointing_row(grid, h[1], h[2]) # << >> \/ pointing_col(grid, h[1], h[2]) # << >>}
  IN IF hits = {} THEN None
     ELSE LET h == FirstPair(hits)
          IN Hint(12, "pointing_pairs",
                  IF pointing_row(grid, h[1], h[2]) # << >>
                  THEN pointing_row(grid, h[1], h[2]) ELSE pointing_col(grid, h[1], h[2]),
                  << >>)

\* line is a row or a column
box_line(grid, line, d) ==
  LET in_line == candidates_in(grid, line, d)
  IN IF Cardinality(in_line) >= 2 /\ Cardinality(in_line) <= 3
        /\ \A c \in in_line : BoxOf(c) = BoxOf(Min(in_line))
     THEN line_eliminations(grid, BOXES[BoxOf(Min(in_line))], in_line, d)
     ELSE << >>

\* for d { for r in rows {..} for c in cols {..} }: the lines of one digit
\* are scanned in the order of UNITS (rows, then columns)
detect_box_line_reduction(grid) ==
  LET hits == {h \in Digits \X (1..(2 * SIDE)) : box_line(grid, UNITS[h[2]], h[1]) # << >>}
  IN IF hits = {} THEN None
     ELSE LET h == FirstPair(hits)
          IN Hint(14, "box_line_reduction", box_line(grid, UNITS[h[2]], h[1]), << >>)

\* X-wing on two base lines (rows, or columns) with two candidate cells each;
\* across(c) is the index of the crossing line of c, cross the crossing table.
x_wing_eliminations(grid, cells1, cells2, d, across(_), cross) ==
  LET four == cells1 \cup cells2
  IN line_eliminations(grid, cross[across(Min(cells1))], four, d)
     \o line_eliminations(grid, cross[across(Max(cells1))], four, d)

x_wing_hits(grid, d, base, across(_), cross) ==
  LET with_2 == {r \in 0..(SIDE - 1) : Cardinality(candidates_in(grid, base[r], d)) = 2}
  IN {h \in with_2 \X with_2 :
        /\ h[1] < h[2]
        /\ LET cells1 == candidates_in(grid, base[h[1]], d)
               cells2 == candidates_in(grid, base[h[2]], d)
           IN /\ across(Min(cells1)) = across(Min(cells2))
              /\ across(Max(cells1)) = across(Max(cells2))
              /\ x_wing_eliminations(grid, cells1, cells2, d, across, cross) # << >>}

x_wing_digit(grid, d) ==
  LET rh == x_wing_hits(grid, d, ROWS, ColOf, COLS)
      ch == x_wing_hits(grid, d, COLS, RowOf, ROWS)
  IN IF rh # {}
     THEN LET h == FirstPair(rh)
          IN x_wing_eliminations(grid, candidates_in(grid, ROWS[h[1]], d),
                                 candidates_in(grid, ROWS[h[2]], d), d, ColOf, COLS)
     ELSE IF ch # {}
     THEN LET h == FirstPair(ch)
          IN x_wing_eliminations(grid, candidates_in(grid, COLS[h[1]], d),
                                 candidates_in(grid, COLS[h[2]], d), d, RowOf, ROWS)
     ELSE << >>

detect_x_wing(grid) ==
  LET ds == {d \in Digits : x_wing_digit(grid, d) # << >>}
  IN IF ds = {} THEN None
     ELSE Hint(46, "x_wing", x_wing_digit(grid, Min(ds)), << >>)

\* can_see that takes two cells of one band (box row) for cells of one box
can_see_band(s1, s2) ==
  RowOf(s1) = RowOf(s2) \/ ColOf(s1) = ColOf(s2)
    \/ (RowOf(s1) \div BOX) = (RowOf(s2) \div BOX)

can_see(s1, s2) ==
  RowOf(s1) = RowOf(s2) \/ ColOf(s1) = ColOf(s2) \/ BoxOf(s1) = BoxOf(s2)

check_y_wing(grid, pivot, p1, p2) ==
  LET cand_pivot == grid.candidates[pivot]
      cand_p1 == grid.candidates[p1]
      cand_p2 == grid.candidates[p2]
      a == cand_pivot \cap cand_p1
      b == cand_pivot \cap cand_p2
      c_p1 == cand_p1 \ a
      c_p2 == cand_p2 \ b
  IN IF ~can_see(pivot, p1) \/ ~can_see(pivot, p2) THEN None
     ELSE IF Cardinality(cand_pivot \cup cand_p1 \cup cand_p2) # 3 THEN None
     ELSE IF Cardinality(a) # 1 THEN None
     ELSE IF Cardinality(b) # 1 THEN None
     ELSE IF a = b THEN None
     ELSE IF Cardinality(c_p1) # 1 \/ Cardinality(c_p2) # 1 THEN None
     ELSE IF c_p1 # c_p2 THEN None
     ELSE LET digit_c == Min(c_p1)
              eliminations ==
                PushDigit(SeqOfSet(get_peers(p1)), digit_c,
                          {peer \in get_peers(p2) : has_candidate(grid, peer, digit_c)})
          IN IF eliminations # << >> THEN Hint(50, "y_wing", eliminations, << >>) ELSE None

\* the three pivot choices of one triple c1 < c2 < c3, in the order tried
y_wing_triple(grid, T) ==
  LET c1 == Min(T)
      c3 == Max(T)
      c2 == CHOOSE c \in T : c # c1 /\ c # c3
  IN or_else(check_y_wing(grid, c1, c2, c3),
             or_else(check_y_wing(grid, c2, c1, c3), check_y_wing(grid, c3, c1, c2)))

detect_y_wing(grid) ==
  LET bivalue_cells == {i \in Cells : grid.values[i] = 0 /\ Cardinality(grid.candidates[i]) = 2}
      hits == {T \in Combos(bivalue_cells, 3) : y_wing_triple(grid, T).some}
  IN IF hits = {} THEN None ELSE y_wing_triple(grid, LexFirst(hits))

\* The strong link a unit contributes for digit d: its two cells when
\* exactly two of its empty cells offer d (exactly_twice), else << >>.
strong_link(grid, unit, d) ==
  LET two == candidates_in(grid, unit, d)
  IN IF Cardinality(two) = 2 THEN <<Min(two), Max(two)>> ELSE << >>

\* neighbors[d][cell]: the partners of cell in unit-scan order, at most 4
neighbors(grid, d, cell) ==
  LET linked == SelectSeq([u \in 1..(3 * SIDE) |-> strong_link(grid, UNITS[u], d)],
                          LAMBDA l : l # << >> /\ (l[1] = cell \/ l[2] = cell))
      all == [k \in 1..Len(linked) |-> IF linked[k][1] = cell THEN linked[k][2] ELSE linked[k][1]]
  IN SubSeq(all, 1, IF Len(all) < 4 THEN Len(all) ELSE 4)

has_links(grid, d) == \E u \in 1..(3 * SIDE) : strong_link(grid, UNITS[u], d) # << >>

\* the loop over the neighbours of the popped node
RECURSIVE color_neighbors(_, _, _, _)
color_neighbors(st, nbrs, k, next_color) ==
  IF k > Len(nbrs) THEN st
  ELSE IF st.colors[nbrs[k]] = 0
       THEN color_neighbors(
              [stack |-> Append(st.stack, nbrs[k]),
               colors |-> [st.colors EXCEPT ![nbrs[k]] = next_color],
               color_a_nodes |-> IF next_color = 1 THEN Append(st.color_a_nodes, nbrs[k])
                                 ELSE st.color_a_nodes,
               color_b_nodes |-> IF next_color = 1 THEN st.color_b_nodes
                                 ELSE Append(st.color_b_nodes, nbrs[k])],
              nbrs, k + 1, next_color)
       ELSE color_neighbors(st, nbrs, k + 1, next_color)

\* while stack_ptr > 0 { pop; colour the unvisited neighbours }
RECURSIVE color_component(_, _, _)
color_component(grid, d, st) ==
  IF st.stack = << >> THEN st
  ELSE LET node == st.stack[Len(st.stack)]
           next_color == IF st.colors[node] = 1 THEN 2 ELSE 1
       IN color_component(grid, d,
            color_neighbors([st EXCEPT !.stack = SubSeq(st.stack, 1, Len(st.stack) - 1)],
                            neighbors(grid, d, node), 1, next_color))

check_color_conflict_fast(cells) ==
  \E i \in 1..Len(cells), j \in 1..Len(cells) : i < j /\ can_see(cells[i], cells[j])

\* what one coloured component st yields for digit d: rule 2 when a colour
\* sees itself, else rule 4, else None
coloring_component_hint(grid, d, st) ==
  LET false_color == IF check_color_conflict_fast(st.color_a_nodes) THEN 1
                     ELSE IF check_color_conflict_fast(st.color_b_nodes) THEN 2
                     ELSE 0
      target_nodes == IF false_color = 1 THEN st.color_a_nodes ELSE st.color_b_nodes
      rule2 == [k \in 1..Len(target_nodes) |-> <<target_nodes[k], d>>]
      rule4 == PushDigit(SeqOfSet(Cells), d,
                 {i \in Cells : /\ has_candidate(grid, i, d)
                                /\ st.colors[i] = 0
                                /\ \E peer \in get_peers(i) : st.colors[peer] = 1
                                /\ \E peer \in get_peers(i) : st.colors[peer] = 2})
  IN IF false_color # 0 /\ rule2 # << >> THEN Hint(54, "simple_coloring", rule2, << >>)
     ELSE IF rule4 # << >> THEN Hint(54, "simple_coloring", rule4, << >>)
     ELSE None

\* the loop over start_node for one digit; colors carries the marks (3) of
\* the components already processed
RECURSIVE coloring_from(_, _, _, _)
RECURSIVE coloring_next(_, _, _, _)
coloring_next(grid, d, start_node, st) ==
  or_else(coloring_component_hint(grid, d, st),
          coloring_from(grid, d,
            [i \in Cells |-> IF st.colors[i] \in {1, 2} THEN 3 ELSE st.colors[i]],
            start_node + 1))

coloring_from(grid, d, colors, start_node) ==
  IF start_node >= SIZE THEN None
  ELSE IF Len(neighbors(grid, d, start_node)) > 0 /\ colors[start_node] = 0
  THEN coloring_next(grid, d, start_node,
         color_component(grid, d,
           [stack |-> <<start_node>>,
            colors |-> [colors EXCEPT ![start_node] = 1],
            color_a_nodes |-> <<start_node>>,
            color_b_nodes |-> << >>]))
  ELSE coloring_from(grid, d, colors, start_node + 1)

coloring_digit(grid, d) ==
  IF has_links(grid, d) THEN coloring_from(grid, d, [i \in Cells |-> 0], 0) ELSE None

RECURSIVE coloring_digits(_, _)
coloring_digits(grid, d) ==
  IF d > SIDE THEN None ELSE or_else(coloring_digit(grid, d), coloring_digits(grid, d + 1))

detect_simple_coloring(grid) == coloring_digits(grid, 1)

\* get_hint that asks for a hidden single before a naked single
get_hint_hidden_first(grid) ==
  or_else(detect_hidden_single(grid),
  or_else(detect_naked_single(grid),
  or_else(detect_naked_subset(grid, 2),
  or_else(detect_pointing_pairs(grid),
  or_else(detect_box_line_reduction(grid),
  or_else(detect_hidden_subset(grid, 2),
  or_else(detect_naked_subset(grid, 3),
  or_else(detect_hidden_subset(grid, 3),
  or_else(detect_naked_subset(grid, 4),
  or_else(detect_hidden_subset(grid, 4),
  or_else(detect_x_wing(grid),
  or_else(detect_y_wing(grid),
          detect_simple_coloring(grid)))))))))))))

get_hint(grid) ==
  or_else(detect_naked_single(grid),
  or_else(detect_hidden_single(grid),
  or_else(detect_naked_subset(grid, 2),
  or_else(detect_pointing_pairs(grid),
  or_else(detect_box_line_reduction(grid),
  or_else(detect_hidden_subset(grid, 2),
  or_else(detect_naked_subset(grid, 3),
  or_else(detect_hidden_subset(grid, 3),
  or_else(detect_naked_subset(grid, 4),
  or_else(detect_hidden_subset(grid, 4),
  or_else(detect_x_wing(grid),
  or_else(detect_y_wing(grid),
          detect_simple_coloring(grid)))))))))))))

\* the hints of the detectors get_hint consults, in its order
detector_hints(grid) ==
  { detect_naked_single(grid), detect_hidden_single(grid),
    detect_naked_subset(grid, 2), detect_pointing_pairs(grid),
    detect_box_line_reduction(grid), detect_hidden_subset(grid, 2),
    detect_naked_subset(grid, 3), detect_hidden_subset(grid, 3),
    detect_naked_subset(grid, 4), detect_hidden_subset(grid, 4),
    detect_x_wing(grid), detect_y_wing(grid), detect_simple_coloring(grid) }

\* what each detector get_hint consults finds on the grid, in the order of
\* the calls
detector_sequence(grid) ==
  << detect_naked_single(grid), detect_hidden_single(grid),
     detect_naked_subset(grid, 2), detect_pointing_pairs(grid),
     detect_box_line_reduction(grid), detect_hidden_subset(grid, 2),
     detect_naked_subset(grid, 3), detect_hidden_subset(grid, 3),
     detect_naked_subset(grid, 4), detect_hidden_subset(grid, 4),
     detect_x_wing(grid), detect_y_wing(grid), detect_simple_coloring(grid) >>

(***************************************************************************)
(* difficulty.rs                                                           *)
(***************************************************************************)
RECURSIVE apply_placements(_, _, _)
apply_placements(grid, placements, k) ==
  IF k > Len(placements) THEN grid
  ELSE apply_placements(
         update_candidates_after_move(
           set_value(grid, placements[k][1], placements[k][2]),
           placements[k][1], placements[k][2]).grid,
         placements, k + 1)

RECURSIVE apply_eliminations(_, _, _)
apply_eliminations(grid, eliminations, k) ==
  IF k > Len(eliminations) THEN grid
  ELSE apply_eliminations(
         [grid EXCEPT !.candidates[eliminations[k][1]] = @ \ {eliminations[k][2]}],
         eliminations, k + 1)

\* apply_hint that makes the placements and leaves the eliminations out
apply_hint_placements_only(grid, hint) ==
  apply_placements(grid, hint.placements, 1)

\* apply_hint that writes the placements and leaves update_candidates_after_move out
apply_hint_unpropagated(grid, hint) ==
  LET placed == {hint.placements[k][1] : k \in 1..Len(hint.placements)}
      digit(i) == hint.placements[CHOOSE k \in 1..Len(hint.placements) :
                                    hint.placements[k][1] = i][2]
  IN apply_eliminations(
       [grid EXCEPT !.values = [i \in Cells |-> IF i \in placed THEN digit(i) ELSE @[i]],
                    !.candidates = [i \in Cells |-> IF i \in placed THEN {} ELSE @[i]]],
       hint.eliminations, 1)

apply_hint(grid, hint) ==
  apply_eliminations(apply_placements(grid, hint.placements, 1), hint.eliminations, 1)

\* f32 arithmetic.  A non-negative f32 below 2^7 is kept as [i, f]: its
\* whole part and its fraction in units of 2^-26.  Every operation rounds
\* its exact result to 24 significant bits, ties to even, as IEEE 754 does.
F32Unit == 2^26
Log2(n) == CHOOSE j \in 0..30 : 2^j <= n /\ n < 2^(j + 1)

f32_round(v) ==
  IF v.i = 0 /\ v.f = 0 THEN v
  ELSE LET j == IF v.i >= 1 THEN Log2(v.i) ELSE Log2(v.f) - 26
           step == IF j + 3 >= 0 THEN 2^(j + 3) ELSE 1
           q == v.f \div step
           r == v.f % step
           up == IF 2 * r > step \/ (2 * r = step /\ q % 2 = 1) THEN 1 ELSE 0
           f2 == (q + up) * step
       IN IF f2 = F32Unit THEN [i |-> v.i + 1, f |-> 0] ELSE [i |-> v.i, f |-> f2]

f32_add(a, b) ==
  f32_round([i |-> a.i + b.i + ((a.f + b.f) \div F32Unit), f |-> (a.f + b.f) % F32Unit])

\* max_difficulty * 0.7: the f32 nearest 0.7 is 11744051 * 2^-24
f32_times_07(m) ==
  f32_round([i |-> (m * 11744051) \div 2^24, f |-> ((m * 11744051) % 2^24) * 4])

\* n more bits of rem / den after the binary point, and what is left
RECURSIVE div_bits(_, _, _, _)
div_bits(rem, den, n, q) ==
  IF n = 0 THEN [q |-> q, rem |-> rem]
  ELSE IF 2 * rem >= den THEN div_bits(2 * rem - den, den, n - 1, 2 * q + 1)
  ELSE div_bits(2 * rem, den, n - 1, 2 * q)

\* total_difficulty / steps as f32, for total >= steps > 0
f32_div(total, steps) ==
  LET i == total \div steps
      j == Log2(i)
      d == div_bits(total % steps, steps, 23 - j, 0)
      up == IF 2 * d.rem > steps \/ (2 * d.rem = steps /\ d.q % 2 = 1) THEN 1 ELSE 0
      f2 == (d.q + up) * 2^(j + 3)
  IN IF f2 = F32Unit THEN [i |-> i + 1, f |-> 0] ELSE [i |-> i, f |-> f2]

\* avg_difficulty * 0.2 for avg >= 1: the f32 nearest 0.2 is
\* 13421773 * 2^-26 = (3276 * 2^12 + 3277) * 2^-26; the 48-bit product of
\* the two mantissas is built from 12-bit halves
f32_times_02(avg) ==
  LET j == Log2(avg.i)
      A == avg.i * 2^(23 - j) + (avg.f \div 2^(j + 3))
      A1 == A \div 2^12
      A0 == A % 2^12
      mid == A1 * 3277 + A0 * 3276
      low == A0 * 3277 + (mid % 2^12) * 2^12
      Plo == low % 2^24
      Phi == A1 * 3276 + (mid \div 2^12) + (low \div 2^24)
      shift == IF Phi >= 2^23 THEN 24 ELSE 23
      M0 == IF shift = 24 THEN Phi ELSE 2 * Phi + (Plo \div 2^23)
      r == IF shift = 24 THEN Plo ELSE Plo % 2^23
      half == 2^(shift - 1)
      M == IF r > half \/ (r = half /\ M0 % 2 = 1) THEN M0 + 1 ELSE M0
      e == 49 - shift - j
  IN [i |-> M \div 2^e, f |-> (M % 2^e) * 2^(26 - e)]

\* final_score that adds 0.2 of the total instead of 0.2 of the average
final_score_total(max_difficulty, total_difficulty, steps, techniques_used) ==
  LET len == Cardinality(techniques_used)
      diversity_bonus == IF len < 10 THEN [i |-> len \div 2, f |-> (len % 2) * 2^25]
                         ELSE [i |-> 5, f |-> 0]
      avg_part == IF steps > 0 THEN f32_times_02(f32_div(total_difficulty, 1))
                  ELSE [i |-> 0, f |-> 0]
      weighted_score == f32_add(f32_add(f32_times_07(max_difficulty), avg_part),
                                diversity_bonus)
      rounded == weighted_score.i + (IF weighted_score.f >= 2^25 THEN 1 ELSE 0)
  IN IF rounded < 1 THEN 1 ELSE IF rounded > 100 THEN 100 ELSE rounded

\* final_score of difficulty.rs:
\*   diversity_bonus = (len as f32 * 0.5).min(5.0)
\*   avg_difficulty = if steps > 0 { total / steps as f32 } else { 0.0 }
\*   weighted_score = max * 0.7 + avg * 0.2 + diversity_bonus
\*   weighted_score.round() as i32, clamped to 1..100
\* round() rounds halves away from zero.
final_score(max_difficulty, total_difficulty, steps, techniques_used) ==
  LET len == Cardinality(techniques_used)
      diversity_bonus == IF len < 10 THEN [i |-> len \div 2, f |-> (len % 2) * 2^25]
                         ELSE [i |-> 5, f |-> 0]
      avg_difficulty == IF steps > 0 THEN f32_div(total_difficulty, steps)
                        ELSE [i |-> 0, f |-> 0]
      avg_part == IF steps > 0 THEN f32_times_02(avg_difficulty) ELSE [i |-> 0, f |-> 0]
      weighted_score == f32_add(f32_add(f32_times_07(max_difficulty), avg_part),
                                diversity_bonus)
      rounded == weighted_score.i + (IF weighted_score.f >= 2^25 THEN 1 ELSE 0)
  IN IF rounded < 1 THEN 1 ELSE IF rounded > 100 THEN 100 ELSE rounded

RECURSIVE evaluate_loop(_, _, _, _, _)
RECURSIVE evaluate_hint(_, _, _, _, _, _)
\* the loop body once get_hint has answered
evaluate_hint(current_grid, max_difficulty, total_difficulty, steps, techniques_used, hint) ==
  IF hint.some
  THEN evaluate_loop(apply_hint(current_grid, hint),
                     IF hint.difficulty > max_difficulty THEN hint.difficulty
                     ELSE max_difficulty,
                     total_difficulty + hint.difficulty,
                     steps + 1,
                     techniques_used \cup {hint.technique})
  ELSE [score |-> 100, solvable |-> FALSE]

evaluate_loop(current_grid, max_difficulty, total_difficulty, steps, techniques_used) ==
  IF is_solved(current_grid)
  THEN [score |-> final_score(max_difficulty, total_difficulty, steps, techniques_used),
        solvable |-> TRUE]
  ELSE evaluate_hint(current_grid, max_difficulty, total_difficulty, steps,
                     techniques_used, get_hint(current_grid))

evaluate_difficulty(grid) == evaluate_loop(update_candidates(grid), 0, 0, 0, {})

(***************************************************************************)
(* generator.rs                                                            *)
(*                                                                         *)
(* A run of generate is a record of its locals and a position pc:          *)
(*   "round"    at the head of the round loop,                             *)
(*   "baseline" at the head of the clue-removal loop,                      *)
(*   "step"     at the head of the hill-climbing loop,                     *)
(*   "attempt"  at the head of the first-improvement loop,                 *)
(*   "done"     returned, with the string in result.                       *)
(* The random source is SmallRng of the rand crate: a shuffle or a choice  *)
(* is decided by one draw out of 0..Draws-1.  The counter `evaluations`    *)
(* is written and never read; it is left out.                              *)
(***************************************************************************)
MaxRounds == 2
MaxSteps == 2
MaxTries == 3
SwapAfter == 1
TargetClues == 6
ScoreScale == 6
Draws == 2

DrawSet == [1..(BOX + 1) -> 0..(Draws - 1)]

Reverse(list) == [k \in 1..Len(list) |-> list[Len(list) + 1 - k]]

\* slice.shuffle(&mut rng): the draw picks a rotation, reversed when odd
shuffle(list, r) ==
  LET n == Len(list)
      rot == [k \in 1..n |-> list[((k - 1 + r) % n) + 1]]
  IN IF r % 2 = 1 THEN Reverse(rot) ELSE rot

\* slice.choose(&mut rng): None on an empty slice
choose(list, r) ==
  IF Len(list) = 0 THEN [some |-> FALSE]
  ELSE [some |-> TRUE, value |-> list[((r * Len(list)) \div Draws) + 1]]

\* SmallRng::from_entropy(): seeded from what the operating system supplies
\* at the time of the call, whatever seed the caller passed
Generator_from_entropy(seed) == [rng |-> [seed |-> <<"entropy", entropy>>]]

Generator_new_with_seed(seed) == [rng |-> [seed |-> <<"seed", seed>>]]

\* the category table with the tolerance of diabolical written 24 for 8
category_table_wide(category) ==
  CASE category = "trivial" -> <<4, 4>>
    [] category = "basic" -> <<17, 8>>
    [] category = "intermediate" -> <<36, 10>>
    [] category = "tough" -> <<56, 12>>
    [] category = "diabolical" -> <<76, 24>>
    [] category = "extreme" -> <<88, 4>>
    [] category = "master" -> <<94, 2>>
    [] category = "grandmaster" -> <<98, 1>>
    [] OTHER -> <<17, 8>>

category_table(category) ==
  CASE category = "trivial" -> <<4, 4>>
    [] category = "basic" -> <<17, 8>>
    [] category = "intermediate" -> <<36, 10>>
    [] category = "tough" -> <<56, 12>>
    [] category = "diabolical" -> <<76, 8>>
    [] category = "extreme" -> <<88, 4>>
    [] category = "master" -> <<94, 2>>
    [] category = "grandmaster" -> <<98, 1>>
    [] OTHER -> <<17, 8>>

\* the locals of generate before the first round; target and tolerance are
\* brought into the range of scores of the BOX board by ScoreScale
generate_begin(self, category) ==
  [pc |-> "round", rng |-> self.rng,
   target |-> category_table(category)[1] \div ScoreScale,
   tolerance |-> category_table(category)[2] \div ScoreScale,
   best_puzzle |-> Grid_new, best_diff_diff |-> 100,
   round |-> 0, full_grid |-> Grid_new, current_grid |-> Grid_new,
   clues |-> << >>, k |-> 1, current_clues |-> SIZE,
   current_diff |-> 0, step |-> 0, improved |-> FALSE, attempts |-> 0,
   result |-> << >>]

\* the grid with the diagonal boxes filled, box i from the shuffle of draw d[i + 1]
fill_diagonal(d) ==
  LET digits(i) == shuffle([k \in 1..SIDE |-> k], d[i + 1])
      diag(cell) == (RowOf(cell) \div BOX) = (ColOf(cell) \div BOX)
  IN [values |-> [cell \in Cells |->
                    IF diag(cell)
                    THEN digits(RowOf(cell) \div BOX)[(RowOf(cell) % BOX) * BOX
                                                       + (ColOf(cell) % BOX) + 1]
                    ELSE 0],
      candidates |-> [cell \in Cells |-> IF diag(cell) THEN {} ELSE FULL]]

\* end_round that also forgets the best puzzle tracked so far
end_round_reset_best(g) ==
  [g EXCEPT !.round = @ + 1, !.pc = "round",
            !.full_grid = Grid_new, !.current_grid = Grid_new,
            !.clues = << >>, !.k = 1, !.current_clues = SIZE,
            !.current_diff = 0, !.step = 0,
            !.best_puzzle = Grid_new, !.best_diff_diff = 100]

\* the end of a round's body: its locals go out of scope
end_round(g) ==
  [g EXCEPT !.round = @ + 1, !.pc = "round",
            !.full_grid = Grid_new, !.current_grid = Grid_new,
            !.clues = << >>, !.k = 1, !.current_clues = SIZE,
            !.current_diff = 0, !.step = 0]

\* the end of a step's body: its locals go out of scope
end_step(g) ==
  [g EXCEPT !.step = @ + 1, !.pc = "step", !.improved = FALSE, !.attempts = 0]

\* the head of a round up to the shuffle of the clue order
round_start(g, d) ==
  LET solved == solve(fill_diagonal(d))
  IN IF ~solved.some
     THEN end_round(g)
     ELSE [g EXCEPT !.full_grid = solved.grid,
                    !.current_grid = solved.grid,
                    !.clues = shuffle([k \in 1..SIZE |-> k - 1], d[BOX + 1]),
                    !.k = 1,
                    !.current_clues = SIZE,
                    !.pc = "baseline"]

\* baseline_step that keeps a removed clue removed whatever the check says
baseline_step_no_restore(g) ==
  IF g.k > Len(g.clues) \/ g.current_clues <= TargetClues
  THEN [g EXCEPT !.current_diff = evaluate_difficulty(g.current_grid).score,
                 !.step = 0, !.pc = "step"]
  ELSE [g EXCEPT !.current_grid = set_value(g.current_grid, g.clues[g.k], 0),
                 !.current_clues = @ - 1,
                 !.k = @ + 1]

\* baseline_step that goes on removing below TargetClues clues
baseline_step_past_target(g) ==
  IF g.k > Len(g.clues)
  THEN [g EXCEPT !.current_diff = evaluate_difficulty(g.current_grid).score,
                 !.step = 0, !.pc = "step"]
  ELSE LET cell == g.clues[g.k]
           val == g.current_grid.values[cell]
           removed == set_value(g.current_grid, cell, 0)
       IN IF ~check_uniqueness_after_removal(removed, cell, val)
          THEN [g EXCEPT !.current_grid = set_value(removed, cell, val),
                         !.k = @ + 1]
          ELSE [g EXCEPT !.current_grid = removed,
                         !.current_clues = @ - 1,
                         !.k = @ + 1]

\* one turn of the removal loop, or its end with the first evaluation
baseline_step(g) ==
  IF g.k > Len(g.clues) \/ g.current_clues <= TargetClues
  THEN [g EXCEPT !.current_diff = evaluate_difficulty(g.current_grid).score,
                 !.step = 0, !.pc = "step"]
  ELSE LET cell == g.clues[g.k]
           val == g.current_grid.values[cell]
           removed == set_value(g.current_grid, cell, 0)
       IN IF ~check_uniqueness_after_removal(removed, cell, val)
          THEN [g EXCEPT !.current_grid = set_value(removed, cell, val),
                         !.k = @ + 1]
          ELSE [g EXCEPT !.current_grid = removed,
                         !.current_clues = @ - 1,
                         !.k = @ + 1]

\* step_check that never returns inside the tolerance window
step_check_no_return(g) ==
  IF g.step >= MaxSteps
  THEN end_round(g)
  ELSE LET diff == g.current_diff - g.target
       IN [g EXCEPT !.best_diff_diff = IF Abs(diff) < @ THEN Abs(diff) ELSE @,
                    !.best_puzzle = IF Abs(diff) < g.best_diff_diff
                                    THEN g.current_grid ELSE @,
                    !.improved = FALSE,
                    !.attempts = 0,
                    !.pc = "attempt"]

\* the head of a hill-climbing step: leave the round after MaxSteps steps,
\* return inside the tolerance window, else track the best puzzle
step_check(g) ==
  IF g.step >= MaxSteps
  THEN end_round(g)
  ELSE LET diff == g.current_diff - g.target
       IN IF Abs(diff) <= g.tolerance
          THEN [g EXCEPT !.result = to_string(g.current_grid), !.pc = "done"]
          ELSE [g EXCEPT !.best_diff_diff = IF Abs(diff) < @ THEN Abs(diff) ELSE @,
                         !.best_puzzle = IF Abs(diff) < g.best_diff_diff
                                         THEN g.current_grid ELSE @,
                         !.improved = FALSE,
                         !.attempts = 0,
                         !.pc = "attempt"]

holes_of(grid) == SeqOfSet({i \in Cells : grid.values[i] = 0})

\* propose that lets every removal through without the uniqueness check
propose_unchecked(g, diff, r) ==
  IF diff > 0
  THEN LET idx == choose(holes_of(g.current_grid), r)
       IN [go |-> TRUE,
           grid |-> IF idx.some
                    THEN set_value(g.current_grid, idx.value, g.full_grid.values[idx.value])
                    ELSE g.current_grid]
  ELSE LET idx == choose(SeqOfSet({i \in Cells : g.current_grid.values[i] # 0}), r)
       IN IF ~idx.some THEN [go |-> TRUE, grid |-> g.current_grid]
          ELSE [go |-> TRUE, grid |-> [g.current_grid EXCEPT !.values[idx.value] = 0]]

\* the neighbour proposed by an attempt; go is FALSE where the code says
\* `continue`
propose(g, diff, r) ==
  IF diff > 0
  THEN LET idx == choose(holes_of(g.current_grid), r)
       IN [go |-> TRUE,
           grid |-> IF idx.some
                    THEN set_value(g.current_grid, idx.value, g.full_grid.values[idx.value])
                    ELSE g.current_grid]
  ELSE LET idx == choose(SeqOfSet({i \in Cells : g.current_grid.values[i] # 0}), r)
       IN IF ~idx.some THEN [go |-> TRUE, grid |-> g.current_grid]
          ELSE LET val == g.current_grid.values[idx.value]
                   next_grid == [g.current_grid EXCEPT !.values[idx.value] = 0]
               IN [go |-> check_uniqueness_after_removal(next_grid, idx.value, val),
                   grid |-> next_grid]

\* the swap move on next_grid: accepted is FALSE when a choice is None, the
\* uniqueness check fails or the score leaves the band
swap_accept(g, diff, swapped, d) ==
  [accepted |-> Abs(d - g.target) <= Abs(diff) + 2, grid |-> swapped, score |-> d]

swap_move(g, next_grid, diff, r_add, r_rem) ==
  LET add_cell == choose(holes_of(g.current_grid), r_add)
  IN IF ~add_cell.some THEN [accepted |-> FALSE]
     ELSE LET added == set_value(next_grid, add_cell.value,
                                 g.full_grid.values[add_cell.value])
              rem_cell == choose(SeqOfSet({i \in Cells : added.values[i] # 0
                                                         /\ i # add_cell.value}), r_rem)
          IN IF ~rem_cell.some THEN [accepted |-> FALSE]
             ELSE LET rem_val == added.values[rem_cell.value]
                      swapped == set_value(added, rem_cell.value, 0)
                  IN IF ~check_uniqueness_after_removal(swapped, rem_cell.value, rem_val)
                     THEN [accepted |-> FALSE]
                     ELSE swap_accept(g, diff, swapped, evaluate_difficulty(swapped).score)

\* the end of a turn whose swap came back as swap
attempt_swapped(g, swap) ==
  IF swap.accepted
  THEN end_step([g EXCEPT !.attempts = @ + 1,
                          !.current_grid = swap.grid,
                          !.current_diff = swap.score,
                          !.improved = TRUE])
  ELSE [g EXCEPT !.attempts = @ + 1]

\* attempt_scored that also takes a neighbour no nearer to the target
attempt_scored_not_strict(g, d, diff, next_grid, next_diff) ==
  IF Abs(next_diff - g.target) <= Abs(diff)
  THEN end_step([g EXCEPT !.attempts = @ + 1,
                          !.current_grid = next_grid,
                          !.current_diff = next_diff,
                          !.improved = TRUE])
  ELSE IF ~g.improved /\ g.attempts + 1 > SwapAfter
  THEN attempt_swapped(g, swap_move(g, next_grid, diff, d[2], d[3]))
  ELSE [g EXCEPT !.attempts = @ + 1]

\* the turn from the evaluation of next_grid on
attempt_scored(g, d, diff, next_grid, next_diff) ==
  IF Abs(next_diff - g.target) < Abs(diff)
  THEN end_step([g EXCEPT !.attempts = @ + 1,
                          !.current_grid = next_grid,
                          !.current_diff = next_diff,
                          !.improved = TRUE])
  ELSE IF ~g.improved /\ g.attempts + 1 > SwapAfter
  THEN attempt_swapped(g, swap_move(g, next_grid, diff, d[2], d[3]))
  ELSE [g EXCEPT !.attempts = @ + 1]

\* the turn from the proposal next on
attempt_proposed(g, d, diff, next) ==
  IF ~next.go
  THEN [g EXCEPT !.attempts = @ + 1]
  ELSE attempt_scored(g, d, diff, next.grid, evaluate_difficulty(next.grid).score)

\* one turn of the first-improvement loop, or its end after MaxTries turns
attempt(g, d) ==
  IF g.attempts >= MaxTries
  THEN end_step(g)
  ELSE attempt_proposed(g, d, g.current_diff - g.target,
                        propose(g, g.current_diff - g.target, d[1]))

\* the return after the last round
fallback(g) == [g EXCEPT !.result = to_string(g.best_puzzle), !.pc = "done"]

(***************************************************************************)
(* Reference notions the claims are stated against: a completion of a grid *)
(* is a full grid that extends its givens and in which every unit holds    *)
(* each digit exactly once.                                                *)
(***************************************************************************)
UnitOk(v, unit) == {v[unit[k]] : k \in 1..SIDE} = Digits
Valid(v) == \A u \in 1..(3 * SIDE) : UnitOk(v, UNITS[u])
PeerValues(v, i) == {v[p] : p \in get_peers(i)}

RECURSIVE Completions(_)
Completions(v) ==
  LET empty == {i \in Cells : v[i] = 0}
  IN IF empty = {} THEN (IF Valid(v) THEN {v} ELSE {})
     ELSE LET i == Min(empty)
          IN UNION {Completions([v EXCEPT ![i] = d]) : d \in Digits \ PeerValues(v, i)}

NumCompletions(v) == Cardinality(Completions(v))

(***************************************************************************)
(* Inputs: a solved grid, the empty grid and a half-blanked grid as        *)
(* strings, then up to MaxEdits calls of set_value.                        *)
(***************************************************************************)
MaxEdits == 2

SolvedDigit(i) == ((BOX * (RowOf(i) % BOX) + (RowOf(i) \div BOX) + ColOf(i)) % SIDE) + 1
SolvedString == [k \in 1..SIZE |-> from_digit(SolvedDigit(k - 1))]
EmptyString == [k \in 1..SIZE |-> "."]
HalfString == [k \in 1..SIZE |-> IF (RowOf(k - 1) + ColOf(k - 1)) % 2 = 0 THEN "." ELSE SolvedString[k]]
InitStrings == {SolvedString, EmptyString, HalfString}

\* grid, edits, ret: the grid under test, the edits made to it and the last
\* call with its result.  gen: the runs of generate.
VARIABLES grid, edits, ret, gen
vars == <<grid, edits, ret, gen, entropy>>

Runs == 1..2
genvars == <<gen, entropy>>
GenIdle == gen = [run \in Runs |-> [pc |-> "idle"]] /\ entropy = 0

InitCore ==
  /\ \E s \in InitStrings : grid = from_string(s)
  /\ edits = 0
  /\ ret = [op |-> "none"]
  /\ GenIdle

SetValue(i, d) ==
  /\ UNCHANGED genvars
  /\ edits < MaxEdits
  /\ grid.values[i] # d
  /\ grid' = set_value(grid, i, d)
  /\ edits' = edits + 1
  /\ ret' = [op |-> "none"]

CallSolve ==
  /\ UNCHANGED genvars
  /\ ret' = [op |-> "solve", arg |-> grid, out |-> solve(grid)]
  /\ UNCHANGED <<grid, edits>>

CallIsUnique ==
  /\ UNCHANGED genvars
  /\ ret' = [op |-> "is_unique", arg |-> grid, out |-> is_unique(grid)]
  /\ UNCHANGED <<grid, edits>>

\* The removal step of the generator: blank a clue, then ask whether the
\* puzzle is still unique.
CallCheckRemoval(cell) ==
  /\ UNCHANGED genvars
  /\ edits < MaxEdits
  /\ grid.values[cell] # 0
  /\ LET val == grid.values[cell]
         g == set_value(grid, cell, 0)
     IN /\ grid' = g
        /\ ret' = [op |-> "check_uniqueness_after_removal", arg |-> g, cell |-> cell,
                   val |-> val, out |-> check_uniqueness_after_removal(g, cell, val)]
  /\ edits' = edits + 1

NextSolver ==
  \/ \E i \in Cells, d \in 0..SIDE : SetValue(i, d)
  \/ CallSolve
  \/ CallIsUnique
  \/ \E cell \in Cells : CallCheckRemoval(cell)

SpecSolver == InitCore /\ [][NextSolver]_vars

(***************************************************************************)
(* Grid and propagator calls.                                              *)
(***************************************************************************)
Chars == {"0", "1", "2", "3", "4", "5", "6", "7", "8", "9", ".", "x"}
PuzzleChars == {"1", "2", "3", "4", "5", "6", "7", "8", "9", "."}

\* apply_hint's elimination step: a direct write to one candidate mask
ClearCandidate(cell, digit) ==
  /\ UNCHANGED genvars
  /\ edits < MaxEdits
  /\ digit \in grid.candidates[cell]
  /\ grid' = [grid EXCEPT !.candidates[cell] = @ \ {digit}]
  /\ edits' = edits + 1
  /\ ret' = [op |-> "none"]

CallUpdateCandidates ==
  /\ UNCHANGED genvars
  /\ grid' = update_candidates(grid)
  /\ ret' = [op |-> "update_candidates", arg |-> grid]
  /\ UNCHANGED edits

CallToString ==
  /\ UNCHANGED genvars
  /\ ret' = [op |-> "to_string", arg |-> grid, out |-> to_string(grid)]
  /\ UNCHANGED <<grid, edits>>

\* Parse the emitted string with one character replaced.
CallFromString(k, c) ==
  /\ UNCHANGED genvars
  /\ edits < MaxEdits
  /\ LET s == [to_string(grid) EXCEPT ![k] = c]
     IN /\ grid' = from_string(s)
        /\ ret' = [op |-> "from_string", arg |-> s]
  /\ edits' = edits + 1

NextGrid ==
  \/ \E i \in Cells, d \in 0..SIDE : SetValue(i, d)
  \/ \E cell \in Cells, digit \in Digits : ClearCandidate(cell, digit)
  \/ CallUpdateCandidates

SpecGrid == InitCore /\ [][NextGrid]_vars

\* a call of update_candidates_after_move on the grid under test
CallUpdateCandidatesAfterMove(cell, val) ==
  /\ UNCHANGED genvars
  /\ edits < MaxEdits
  /\ LET out == update_candidates_after_move(grid, cell, val)
     IN /\ grid' = out.grid
        /\ ret' = [op |-> "update_candidates_after_move", arg |-> grid,
                   cell |-> cell, val |-> val, out |-> out]
  /\ edits' = edits + 1

NextMove ==
  \/ \E i \in Cells, d \in 0..SIDE : SetValue(i, d)
  \/ \E cell \in Cells, digit \in Digits : ClearCandidate(cell, digit)
  \/ CallUpdateCandidates
  \/ \E cell \in Cells, val \in Digits : CallUpdateCandidatesAfterMove(cell, val)

SpecMove == InitCore /\ [][NextMove]_vars

NextString ==
  \/ CallToString
  \/ \E k \in 1..SIZE, c \in Chars : CallFromString(k, c)

SpecString == InitCore /\ [][NextString]_vars

(***************************************************************************)
(* Strings of any length handed to Grid::from_string and to                *)
(* evaluate_difficulty_fast.  ret.arg is the string at hand.               *)
(***************************************************************************)
InputChars == {"0", "3", "9", "x"}
ShortString == SubSeq(HalfString, 1, SIZE - BOX)
LongString == SolvedString \o <<"7", "x">>
InputStrings == InitStrings \cup {ShortString, LongString, << >>}

InitInput ==
  /\ grid = Grid_new
  /\ edits = 0
  /\ \E s \in InputStrings : ret = [op |-> "input", arg |-> s]
  /\ GenIdle

ReplaceChar(k, c) ==
  /\ UNCHANGED genvars
  /\ edits < MaxEdits
  /\ k <= Len(ret.arg)
  /\ ret.arg[k] # c
  /\ ret' = [op |-> "input", arg |-> [ret.arg EXCEPT ![k] = c]]
  /\ grid' = Grid_new
  /\ edits' = edits + 1

AppendChar(c) ==
  /\ UNCHANGED genvars
  /\ edits < MaxEdits
  /\ ret' = [op |-> "input", arg |-> Append(ret.arg, c)]
  /\ grid' = Grid_new
  /\ edits' = edits + 1

DropLast ==
  /\ UNCHANGED genvars
  /\ edits < MaxEdits
  /\ Len(ret.arg) > 0
  /\ ret' = [op |-> "input", arg |-> SubSeq(ret.arg, 1, Len(ret.arg) - 1)]
  /\ grid' = Grid_new
  /\ edits' = edits + 1

CallParse ==
  /\ UNCHANGED genvars
  /\ ret.op = "input"
  /\ grid' = from_string(ret.arg)
  /\ ret' = [op |-> "parse", arg |-> ret.arg]
  /\ UNCHANGED edits

\* lib.rs evaluate_difficulty_fast
CallEvaluateDifficultyFast ==
  /\ UNCHANGED genvars
  /\ ret.op = "input"
  /\ grid' = from_string(ret.arg)
  /\ ret' = [op |-> "evaluate_difficulty_fast", arg |-> ret.arg,
             out |-> evaluate_difficulty(from_string(ret.arg)).score]
  /\ UNCHANGED edits

\* evaluate_difficulty on the grid parsed from the string
CallEvaluateDifficulty ==
  /\ UNCHANGED genvars
  /\ ret.op = "parse"
  /\ ret' = [op |-> "evaluate_difficulty", arg |-> ret.arg, out |-> evaluate_difficulty(grid)]
  /\ UNCHANGED <<grid, edits>>

NextInput ==
  \/ \E k \in 1..(SIZE + BOX), c \in InputChars : ReplaceChar(k, c)
  \/ \E c \in InputChars : AppendChar(c)
  \/ DropLast
  \/ CallParse
  \/ CallEvaluateDifficultyFast
  \/ CallEvaluateDifficulty

SpecInput == InitInput /\ [][NextInput]_vars

(***************************************************************************)
(* The loop of evaluate_difficulty over the hint chains of four puzzles    *)
(* of the 9x9 board.  The chains are what get_hint and apply_hint above    *)
(* give, hint after hint, when BOX is 3; only the technique and the weight *)
(* of each hint are kept, which is all the loop reads.                     *)
(*   ChainA  .6..9583...8.2...9......16....5...2.8..31........495...17...9.564....7...897.1... *)
(*   ChainB  ..4.6..1.8...5..........6....8..1.7..4.........142...3.2.8..19.9..274.86.839...47 *)
(*   ChainC  3.4.....15..1....28...2..6......5.8......49.6....8.....1...2.9..4.6....8.9....3.. *)
(*   ChainD  .89.2.......8.35..1.2.........23........1..4756.9........34..2.21....3.........65 *)
(***************************************************************************)
Times(hint, n) == [k \in 1..n |-> hint]

NakedSingle == Hint(1, "naked_single", << >>, << >>)
HiddenSingle == Hint(7, "hidden_single", << >>, << >>)
NakedPairs == Hint(9, "naked_pairs", << >>, << >>)
PointingPairs == Hint(12, "pointing_pairs", << >>, << >>)
HiddenPairs == Hint(18, "hidden_pairs", << >>, << >>)

ChainA ==
  Times(NakedSingle, 13)
    \o <<HiddenSingle, NakedPairs, NakedPairs, PointingPairs, HiddenPairs, HiddenSingle>>
    \o Times(NakedSingle, 37)

ChainB ==
  Times(NakedSingle, 21) \o Times(HiddenSingle, 5) \o <<HiddenPairs, HiddenSingle>>
    \o Times(NakedSingle, 25)

ChainC ==
  Times(NakedSingle, 8) \o <<HiddenSingle, NakedSingle, HiddenSingle>>
    \o Times(NakedSingle, 5) \o <<HiddenSingle, HiddenSingle, NakedSingle, HiddenSingle>>
    \o Times(NakedSingle, 5) \o <<HiddenSingle, NakedSingle, HiddenPairs, HiddenSingle>>
    \o Times(NakedSingle, 30)

ChainD ==
  Times(HiddenSingle, 13) \o <<NakedSingle, HiddenSingle, NakedPairs, HiddenSingle>>
    \o <<NakedSingle, HiddenSingle, NakedSingle, HiddenPairs, HiddenSingle>>
    \o Times(NakedSingle, 2) \o <<HiddenSingle>> \o Times(NakedSingle, 4)
    \o Times(HiddenSingle, 4) \o Times(NakedSingle, 26)

ScoredChains == {ChainA, ChainB, ChainC, ChainD}

InitScore ==
  /\ grid = Grid_new
  /\ edits = 0
  /\ \E chain \in ScoredChains :
       ret = [op |-> "loop", chain |-> chain, hints |-> << >>,
              max_difficulty |-> 0, total_difficulty |-> 0, steps |-> 0,
              techniques_used |-> {}]
  /\ GenIdle

\* a turn of the loop in which get_hint answers with the next hint of the chain
LoopHint ==
  /\ UNCHANGED genvars
  /\ ret.op = "loop"
  /\ ret.steps < Len(ret.chain)
  /\ LET hint == ret.chain[ret.steps + 1]
     IN ret' = [ret EXCEPT !.hints = Append(@, hint),
                           !.max_difficulty = IF hint.difficulty > @ THEN hint.difficulty ELSE @,
                           !.total_difficulty = @ + hint.difficulty,
                           !.steps = @ + 1,
                           !.techniques_used = @ \cup {hint.technique}]
  /\ UNCHANGED <<grid, edits>>

\* the turn in which the grid is solved: the score is computed and returned
LoopSolved ==
  /\ UNCHANGED genvars
  /\ ret.op = "loop"
  /\ ret.steps = Len(ret.chain)
  /\ ret' = [op |-> "score", hints |-> ret.hints,
             out |-> [score |-> final_score(ret.max_difficulty, ret.total_difficulty,
                                            ret.steps, ret.techniques_used),
                      solvable |-> TRUE]]
  /\ UNCHANGED <<grid, edits>>

NextScore ==
  \/ LoopHint
  \/ LoopSolved

SpecScore == InitScore /\ [][NextScore]_vars

(***************************************************************************)
(* The loop of evaluate_difficulty over every chain of at most MaxChain    *)
(* hints, each hint with the weight and the technique of one of the 13     *)
(* detectors get_hint asks: whatever the grid, these are the hints the     *)
(* loop can be given.  Only the weight and the technique are kept.         *)
(***************************************************************************)
MaxChain == 7

DetectorHints ==
  {NakedSingle, HiddenSingle, NakedPairs, PointingPairs, HiddenPairs,
   Hint(14, "box_line_reduction", << >>, << >>),
   Hint(22, "naked_triples", << >>, << >>),
   Hint(28, "hidden_triples", << >>, << >>),
   Hint(35, "naked_quads", << >>, << >>),
   Hint(42, "hidden_quads", << >>, << >>),
   Hint(46, "x_wing", << >>, << >>),
   Hint(50, "y_wing", << >>, << >>),
   Hint(54, "simple_coloring", << >>, << >>)}

InitWeights ==
  /\ grid = Grid_new
  /\ edits = 0
  /\ ret = [op |-> "turn", max_difficulty |-> 0, total_difficulty |-> 0, steps |-> 0,
            techniques_used |-> {}]
  /\ GenIdle

\* a turn in which get_hint answers with a hint of one of the detectors
WeighHint ==
  /\ UNCHANGED genvars
  /\ ret.op = "turn"
  /\ ret.steps < MaxChain
  /\ \E hint \in DetectorHints :
       ret' = [ret EXCEPT !.max_difficulty = IF hint.difficulty > @ THEN hint.difficulty ELSE @,
                          !.total_difficulty = @ + hint.difficulty,
                          !.steps = @ + 1,
                          !.techniques_used = @ \cup {hint.technique}]
  /\ UNCHANGED <<grid, edits>>

\* the turn in which the grid is solved
WeighSolved ==
  /\ UNCHANGED genvars
  /\ ret.op = "turn"
  /\ ret' = [op |-> "weighed", max_difficulty |-> ret.max_difficulty,
             total_difficulty |-> ret.total_difficulty, steps |-> ret.steps,
             techniques_used |-> ret.techniques_used,
             out |-> [score |-> final_score(ret.max_difficulty, ret.total_difficulty,
                                            ret.steps, ret.techniques_used),
                      solvable |-> TRUE]]
  /\ UNCHANGED <<grid, edits>>

\* the turn in which get_hint answers none
WeighStuck ==
  /\ UNCHANGED genvars
  /\ ret.op = "turn"
  /\ ret' = [op |-> "weighed", max_difficulty |-> ret.max_difficulty,
             total_difficulty |-> ret.total_difficulty, steps |-> ret.steps,
             techniques_used |-> ret.techniques_used,
             out |-> [score |-> 100, solvable |-> FALSE]]
  /\ UNCHANGED <<grid, edits>>

NextWeights ==
  \/ WeighHint
  \/ WeighSolved
  \/ WeighStuck

SpecWeights == InitWeights /\ [][NextWeights]_vars

(***************************************************************************)
(* Hint chains: puzzles that keep the clue of cell 0 and HintClues further  *)
(* clues of a solved grid have their candidates computed, then hints are   *)
(* requested and applied.                                                  *)
(***************************************************************************)
HintClues == 3

PuzzleString(S) == [k \in 1..SIZE |-> IF (k - 1) \in S THEN SolvedString[k] ELSE "."]

InitHint ==
  /\ \E S \in SUBSET (Cells \ {0}) :
       Cardinality(S) = HintClues /\ grid = from_string(PuzzleString(S \cup {0}))
  /\ edits = 0
  /\ ret = [op |-> "none"]
  /\ GenIdle

\* one turn of evaluate_difficulty's loop: request a hint and apply it
CallGetHint ==
  /\ UNCHANGED genvars
  /\ ret.op \in {"update_candidates", "get_hint"}
  /\ ~is_solved(grid)
  /\ ret' = [op |-> "get_hint", arg |-> grid, out |-> get_hint(grid)]
  /\ grid' = IF ret'.out.some THEN apply_hint(grid, ret'.out) ELSE grid
  /\ UNCHANGED edits

NextHint ==
  \/ ret.op = "none" /\ CallUpdateCandidates
  \/ CallGetHint

SpecHint == InitHint /\ [][NextHint]_vars

\* Grids a solved grid turns into by up to MaxEdits writes of a digit or a
\* blank; candidates are computed, then a hint is requested and applied.
InitSolved ==
  /\ grid = from_string(SolvedString)
  /\ edits = 0
  /\ ret = [op |-> "none"]
  /\ GenIdle

NextSolved ==
  \/ \E i \in Cells, d \in 0..SIDE : SetValue(i, d)
  \/ ret.op = "none" /\ CallUpdateCandidates
  \/ CallGetHint

SpecSolved == InitSolved /\ [][NextSolved]_vars

(***************************************************************************)
(* evaluate_difficulty turn by turn.  Inputs: the puzzles of InitHint, the *)
(* solved grid with up to MaxEdits characters replaced and the half-filled *)
(* grid with one character replaced, so that solved, stuck, contradictory  *)
(* and uncompletable grids are among them.  `grid` is current_grid; the    *)
(* other locals of the loop are in ret.                                    *)
(***************************************************************************)
EvalChars == {"."} \cup {from_digit(d) : d \in 1..SIDE}

EvalInputs ==
  {PuzzleString(S \cup {0}) : S \in {T \in SUBSET (Cells \ {0}) : Cardinality(T) = HintClues}}
    \cup {[SolvedString EXCEPT ![j] = c, ![k] = e] :
            j \in 1..SIZE, k \in 1..SIZE, c \in EvalChars, e \in EvalChars}
    \cup {[HalfString EXCEPT ![k] = c] : k \in 1..SIZE, c \in EvalChars}

InitEval ==
  /\ grid = Grid_new
  /\ ret = [op |-> "none"]
  /\ edits = 0
  /\ GenIdle

\* the call on a parsed input: the copy of the argument, update_candidates
\* and the loop's locals
EvalBegin ==
  /\ UNCHANGED genvars
  /\ ret.op = "none"
  /\ \E s \in EvalInputs :
       /\ grid' = update_candidates(from_string(s))
       /\ ret' = [op |-> "eval", input |-> from_string(s), max_difficulty |-> 0,
                  total_difficulty |-> 0, steps |-> 0, techniques_used |-> {}]
  /\ UNCHANGED edits

\* a turn in which the grid is not solved and get_hint answers with a hint
EvalHint ==
  /\ UNCHANGED genvars
  /\ ret.op = "eval"
  /\ ~is_solved(grid)
  /\ get_hint(grid).some
  /\ LET hint == get_hint(grid)
     IN /\ ret' = [ret EXCEPT
                     !.max_difficulty = IF hint.difficulty > @ THEN hint.difficulty ELSE @,
                     !.total_difficulty = @ + hint.difficulty,
                     !.steps = @ + 1,
                     !.techniques_used = @ \cup {hint.technique}]
        /\ grid' = apply_hint(grid, hint)
  /\ UNCHANGED edits

\* the turn in which get_hint answers none
EvalStuck ==
  /\ UNCHANGED genvars
  /\ ret.op = "eval"
  /\ ~is_solved(grid)
  /\ ~get_hint(grid).some
  /\ ret' = [op |-> "returned", input |-> ret.input, steps |-> ret.steps,
             out |-> [score |-> 100, solvable |-> FALSE]]
  /\ UNCHANGED <<grid, edits>>

\* the turn in which the grid is solved
EvalSolved ==
  /\ UNCHANGED genvars
  /\ ret.op = "eval"
  /\ is_solved(grid)
  /\ ret' = [op |-> "returned", input |-> ret.input, steps |-> ret.steps,
             out |-> [score |-> final_score(ret.max_difficulty, ret.total_difficulty,
                                            ret.steps, ret.techniques_used),
                      solvable |-> TRUE]]
  /\ UNCHANGED <<grid, edits>>

NextEval ==
  \/ EvalBegin
  \/ EvalHint
  \/ EvalStuck
  \/ EvalSolved

SpecEval == InitEval /\ [][NextEval]_vars

\* a turn of the loop of evaluate_difficulty
EvalTurn ==
  \/ EvalHint
  \/ EvalStuck
  \/ EvalSolved

\* evaluate_difficulty is one call of a sequential program: once begun, its
\* loop takes turn after turn.  This is WF_vars(EvalTurn) with
\* ENABLED <<EvalTurn>>_vars written out as ret.op = "eval": in such a state
\* the grid is solved, or get_hint answers with a hint, or it answers none,
\* and each of the three turns changes ret.
SpecEvalFair ==
  SpecEval /\ ([]<>(ret.op # "eval") \/ []<><<EvalTurn>>_vars)

(***************************************************************************)
(* Two calls of generate_with_seed_fast with one category and one seed,    *)
(* stepped side by side.  Runs whose generators are in the same state      *)
(* draw the same numbers.                                                  *)
(***************************************************************************)
Categories == {"trivial", "basic", "intermediate", "unknown"}
Seeds == {42}

Init ==
  /\ \E category \in Categories, seed \in Seeds :
       gen = [run \in Runs |-> [pc |-> "new", category |-> category, seed |-> seed]]
  /\ entropy = 0
  /\ grid = Grid_new
  /\ edits = 0
  /\ ret = [op |-> "none"]

Started == \A run \in Runs : gen[run].pc \notin {"new", "idle"}

\* lib.rs generate_with_seed_fast up to the first round
CallGenerateWithSeed(run) ==
  /\ gen[run].pc = "new"
  /\ \A q \in Runs : q < run => gen[q].pc # "new"
  /\ gen' = [gen EXCEPT ![run] = generate_begin(Generator_new_with_seed(gen[run].seed),
                                                gen[run].category)]
  /\ entropy' = entropy + 1
  /\ UNCHANGED <<grid, edits, ret>>

SameStream(ds) == \A p, q \in Runs : gen[p].rng = gen[q].rng => ds[p] = ds[q]

\* On the board of order 3 every filling of the diagonal boxes has a
\* completion, so solve never fails there; the draws of a round are kept
\* to the fillings for which that is so on the board of order BOX.
Completable(d) == solve(fill_diagonal(d)).some

AtRound(g) == g.pc = "round" /\ g.round < MaxRounds
AtEnd(g) == g.pc = "round" /\ g.round >= MaxRounds

RoundStart ==
  /\ Started /\ \E run \in Runs : AtRound(gen[run])
  /\ \E ds \in [Runs -> {d \in DrawSet : Completable(d)}] :
       /\ SameStream(ds)
       /\ gen' = [run \in Runs |-> IF AtRound(gen[run])
                                   THEN round_start(gen[run], ds[run]) ELSE gen[run]]
  /\ UNCHANGED <<grid, edits, ret, entropy>>

Fallback ==
  /\ Started /\ \E run \in Runs : AtEnd(gen[run])
  /\ gen' = [run \in Runs |-> IF AtEnd(gen[run]) THEN fallback(gen[run]) ELSE gen[run]]
  /\ UNCHANGED <<grid, edits, ret, entropy>>

BaselineStep ==
  /\ Started /\ \E run \in Runs : gen[run].pc = "baseline"
  /\ gen' = [run \in Runs |-> IF gen[run].pc = "baseline"
                              THEN baseline_step(gen[run]) ELSE gen[run]]
  /\ UNCHANGED <<grid, edits, ret, entropy>>

StepCheck ==
  /\ Started /\ \E run \in Runs : gen[run].pc = "step"
  /\ gen' = [run \in Runs |-> IF gen[run].pc = "step"
                              THEN step_check(gen[run]) ELSE gen[run]]
  /\ UNCHANGED <<grid, edits, ret, entropy>>

Attempt ==
  /\ Started /\ \E run \in Runs : gen[run].pc = "attempt"
  /\ \E ds \in [Runs -> DrawSet] :
       /\ SameStream(ds)
       /\ gen' = [run \in Runs |-> IF gen[run].pc = "attempt"
                                   THEN attempt(gen[run], ds[run]) ELSE gen[run]]
  /\ UNCHANGED <<grid, edits, ret, entropy>>

Next ==
  \/ \E run \in Runs : CallGenerateWithSeed(run)
  \/ RoundStart
  \/ BaselineStep
  \/ StepCheck
  \/ Attempt
  \/ Fallback

Spec == Init /\ [][Next]_vars

(***************************************************************************)
(* generate over the scores alone.  A puzzle is kept as the score          *)
(* evaluate_difficulty gives it, which is all the hill climb reads of it;  *)
(* every evaluation draws its score from ScoreRange, the results           *)
(* evaluate_difficulty can return, and every shuffle, choice and           *)
(* uniqueness check may go either way.  Targets and tolerances are those   *)
(* of the category table, unscaled.  The locals of the call are in ret.    *)
(***************************************************************************)
ScoreRange == (1..54) \cup {100}
HardCategories == {"diabolical", "extreme", "master", "grandmaster"}

InitClimb ==
  /\ grid = Grid_new
  /\ edits = 0
  /\ GenIdle
  /\ \E category \in HardCategories :
       ret = [op |-> "generate", pc |-> "round", category |-> category,
              target |-> category_table(category)[1],
              tolerance |-> category_table(category)[2],
              best_tracked |-> FALSE, best_score |-> 0, best_diff_diff |-> 100,
              round |-> 0, current_diff |-> 0, step |-> 0, improved |-> FALSE,
              attempts |-> 0, returned |-> "no", result |-> 0]

\* a round up to the first evaluation of the puzzle the removal loop left
ClimbRound ==
  /\ UNCHANGED genvars
  /\ ret.op = "generate" /\ ret.pc = "round" /\ ret.round < MaxRounds
  /\ \E score \in ScoreRange :
       ret' = [ret EXCEPT !.current_diff = score, !.step = 0, !.pc = "step"]
  /\ UNCHANGED <<grid, edits>>

\* the head of a hill-climbing step
ClimbStep ==
  /\ UNCHANGED genvars
  /\ ret.op = "generate" /\ ret.pc = "step"
  /\ LET diff == ret.current_diff - ret.target
     IN ret' = IF ret.step >= MaxSteps
               THEN [ret EXCEPT !.round = @ + 1, !.pc = "round", !.current_diff = 0,
                                !.step = 0]
               ELSE IF Abs(diff) <= ret.tolerance
               THEN [ret EXCEPT !.result = ret.current_diff, !.returned = "in the loop",
                                !.pc = "done"]
               ELSE [ret EXCEPT !.best_diff_diff = IF Abs(diff) < @ THEN Abs(diff) ELSE @,
                                !.best_score = IF Abs(diff) < ret.best_diff_diff
                                               THEN ret.current_diff ELSE @,
                                !.best_tracked = (Abs(diff) < ret.best_diff_diff) \/ @,
                                !.improved = FALSE, !.attempts = 0, !.pc = "attempt"]
  /\ UNCHANGED <<grid, edits>>

\* one turn of the first-improvement loop: `continue`, a neighbour scored
\* next_diff, and after SwapAfter turns a swap that fails or is scored d
ClimbAttempt ==
  /\ UNCHANGED genvars
  /\ ret.op = "generate" /\ ret.pc = "attempt"
  /\ LET diff == ret.current_diff - ret.target
         accept(score) == [ret EXCEPT !.attempts = 0, !.current_diff = score,
                                      !.improved = FALSE, !.step = @ + 1, !.pc = "step"]
         again == [ret EXCEPT !.attempts = @ + 1]
     IN IF ret.attempts >= MaxTries
        THEN ret' = [ret EXCEPT !.attempts = 0, !.improved = FALSE, !.step = @ + 1,
                                !.pc = "step"]
        ELSE \/ ret' = again
             \/ \E next_diff \in ScoreRange :
                  /\ Abs(next_diff - ret.target) < Abs(diff)
                  /\ ret' = accept(next_diff)
             \/ /\ {next_diff \in ScoreRange : Abs(next_diff - ret.target) >= Abs(diff)} # {}
                /\ ~ret.improved /\ ret.attempts + 1 > SwapAfter
                /\ \E d \in ScoreRange :
                     ret' = IF Abs(d - ret.target) <= Abs(diff) + 2 THEN accept(d) ELSE again
  /\ UNCHANGED <<grid, edits>>

\* the return after the last round
ClimbFallback ==
  /\ UNCHANGED genvars
  /\ ret.op = "generate" /\ ret.pc = "round" /\ ret.round >= MaxRounds
  /\ ret' = [ret EXCEPT !.result = ret.best_score, !.returned = "after the rounds",
                        !.pc = "done"]
  /\ UNCHANGED <<grid, edits>>

NextClimb ==
  \/ ClimbRound
  \/ ClimbStep
  \/ ClimbAttempt
  \/ ClimbFallback

SpecClimb == InitClimb /\ [][NextClimb]_vars

\* generate is one call of a sequential program: it runs until it returns
SpecClimbFair == SpecClimb /\ WF_vars(NextClimb)

(***************************************************************************)
(* Claims                                                                  *)
(***************************************************************************)

Clues(g) == {i \in Cells : g.values[i] # 0}

\* C1: the string generate returns parses to a grid with exactly one
\* completion, which is_unique confirms, on the early return and on the
\* fallback return alike; so does every puzzle it could return, the current
\* puzzle at the head of each step and the best puzzle once one is tracked.
C1_GeneratedPuzzleIsUnique ==
  \A run \in Runs :
    /\ gen[run].pc = "done" =>
         /\ is_unique(from_string(gen[run].result))
         /\ NumCompletions(from_string(gen[run].result).values) = 1
    /\ gen[run].pc \in {"step", "attempt"} =>
         NumCompletions(gen[run].current_grid.values) = 1
    /\ gen[run].pc = "attempt" => NumCompletions(gen[run].best_puzzle.values) = 1

\* generate has returned the best-tracked puzzle after the last round, and
\* the puzzle has lost clues.
C1_Witness ==
  /\ gen[1].pc = "done"
  /\ gen[1].round = MaxRounds
  /\ Cardinality(Clues(from_string(gen[1].result))) <= TargetClues
  /\ Cardinality(Clues(from_string(gen[1].result))) > 0

SoundHint(hint, c) ==
  hint.some =>
    /\ \A k \in 1..Len(hint.placements) :
         c[hint.placements[k][1]] = hint.placements[k][2]
    /\ \A k \in 1..Len(hint.eliminations) :
         c[hint.eliminations[k][1]] # hint.eliminations[k][2]

C3_RemovalDecidesUniqueness ==
  (/\ ret.op = "check_uniqueness_after_removal"
   /\ NumCompletions([ret.arg.values EXCEPT ![ret.cell] = ret.val]) = 1)
  => /\ ret.out = (NumCompletions(ret.arg.values) = 1)
     /\ ret.out = is_unique(ret.arg)

\* A removal from a uniquely solvable puzzle that the check rejects.
C3_Witness ==
  /\ ret.op = "check_uniqueness_after_removal"
  /\ NumCompletions([ret.arg.values EXCEPT ![ret.cell] = ret.val]) = 1
  /\ ret.out = FALSE
  /\ NumCompletions(ret.arg.values) > 1

\* C5: is_unique(g) is true if and only if g has exactly one completion,
\* for every grid, also one whose givens repeat a digit in a unit.
C5_IsUniqueIffOneCompletion ==
  ret.op = "is_unique" => (ret.out = (NumCompletions(ret.arg.values) = 1))

\* C6: solve(g) returns Some if and only if g has a completion, and the
\* grid it returns is a completion of g.
C6_SolveIffCompletion ==
  ret.op = "solve" =>
    /\ ret.out.some = (NumCompletions(ret.arg.values) >= 1)
    /\ ret.out.some => ret.out.grid.values \in Completions(ret.arg.values)

\* C7: after update_candidates the mask of every empty cell holds exactly
\* the digits that no cell of its row, column or box has as value.
C7_CandidatesAreLegalDigits ==
  ret.op = "update_candidates" =>
    \A i \in Cells : grid.values[i] = 0 =>
      grid.candidates[i] = FULL \ PeerValues(grid.values, i)

\* C8: after update_candidates every cell with a non-zero value has
\* candidate mask 0.
C8_PlacedCellsHaveNoCandidates ==
  ret.op = "update_candidates" =>
    \A i \in Cells : grid.values[i] # 0 => grid.candidates[i] = {}

\* C9: update_candidates applied to its own result changes neither a value
\* nor a candidate mask, whatever masks the grid held before the first call.
C9_UpdateCandidatesIdempotent ==
  ret.op = "update_candidates" => update_candidates(grid) = grid

\* update_candidates has run on a grid whose masks had been written to.
C9_Witness ==
  /\ ret.op = "update_candidates"
  /\ ret.arg.candidates # grid.candidates
  /\ \E i \in Cells : ret.arg.values[i] = 0 /\ ret.arg.candidates[i] \notin {FULL, grid.candidates[i]}

\* C10: a parsed string of SIZE characters over 1..9 and . is emitted
\* unchanged, and an emitted string parses to the same values.
C10_RoundTrip ==
  /\ (ret.op = "from_string" /\ \A k \in 1..SIZE : ret.arg[k] \in PuzzleChars)
       => to_string(grid) = ret.arg
  /\ ret.op = "to_string" => from_string(ret.out).values = grid.values

\* A string holding the digit 9 has been parsed.
C10_Witness ==
  /\ ret.op = "from_string"
  /\ \A k \in 1..SIZE : ret.arg[k] \in PuzzleChars
  /\ \E k \in 1..SIZE : ret.arg[k] = "9"
  /\ \E k \in 1..SIZE : ret.arg[k] = "."

\* The value the parser is to give cell i for the string s: the digit of a
\* character 1..9 at index i, else empty.
DigitChars == <<"1", "2", "3", "4", "5", "6", "7", "8", "9">>
ExpectedValue(s, i) ==
  IF i < Len(s) /\ \E d \in 1..Len(DigitChars) : DigitChars[d] = s[i + 1]
  THEN CHOOSE d \in 1..Len(DigitChars) : DigitChars[d] = s[i + 1]
  ELSE 0

\* C11: from_string gives every cell the digit of its character when that
\* is 1..9 and leaves it empty otherwise, for strings shorter and longer
\* than SIZE alike; a character at index SIZE or beyond changes nothing;
\* evaluate_difficulty_fast returns a score in 1..100 for every string.
C11_LenientParsing ==
  /\ ret.op = "parse" =>
       /\ \A i \in Cells : grid.values[i] = ExpectedValue(ret.arg, i)
       /\ Len(ret.arg) >= SIZE =>
            \A c \in Chars : from_string(Append(ret.arg, c)) = grid
  /\ ret.op = "evaluate_difficulty_fast" => ret.out \in 1..100

\* A string longer than SIZE, with a digit past the end and a "0" and an
\* "x" inside, has been parsed.
C11_Witness ==
  /\ ret.op = "parse"
  /\ Len(ret.arg) > SIZE
  /\ ret.arg[SIZE + 1] \in {"7", "9"}
  /\ \E k \in 1..SIZE : ret.arg[k] = "0"
  /\ \E k \in 1..SIZE : ret.arg[k] = "x"

\* C12: the grid from_string returns has, in every empty cell, the
\* candidate mask update_candidates computes from the parsed placements.
C12_ParsedCandidatesRecomputed ==
  ret.op = "parse" =>
    \A i \in Cells : grid.values[i] = 0 =>
      grid.candidates[i] = update_candidates(grid).candidates[i]

\* The hints get_hint gives when each is applied before the next is asked
\* for, from grid g on, and whether the chain ends before g is solved.
RECURSIVE Replay(_, _)
Replay(g, hints) ==
  IF is_solved(g) THEN [hints |-> hints, stuck |-> FALSE]
  ELSE IF get_hint(g).some
  THEN Replay(apply_hint(g, get_hint(g)), Append(hints, get_hint(g)))
  ELSE [hints |-> hints, stuck |-> TRUE]

\* clamp(round(0.7 * max_w + 0.2 * (sum_w / steps) + min(5, 0.5 * n)), 1, 100)
\* in exact arithmetic, halves rounded up: with ten times the sum written
\* as num / steps, the rounded value is (2 * num + den) \div (2 * den) for
\* den = 10 * steps.
RECURSIVE SumWeights(_)
SumWeights(hints) ==
  IF hints = << >> THEN 0 ELSE Head(hints).difficulty + SumWeights(Tail(hints))

ClaimedScore(hints) ==
  LET steps == Len(hints)
      max_w == IF steps = 0 THEN 0 ELSE Max({hints[k].difficulty : k \in 1..steps})
      n == Cardinality({hints[k].technique : k \in 1..steps})
      bonus10 == IF 5 * n < 50 THEN 5 * n ELSE 50
      num == IF steps = 0 THEN 0
             ELSE 7 * max_w * steps + 2 * SumWeights(hints) + bonus10 * steps
      den == IF steps = 0 THEN 10 ELSE 10 * steps
      rounded == (2 * num + den) \div (2 * den)
  IN IF rounded < 1 THEN 1 ELSE IF rounded > 100 THEN 100 ELSE rounded

\* C15: evaluate_difficulty returns score 100, not solvable, exactly when
\* the hint chain ends before the grid is solved; otherwise solvable with
\* the score the formula gives for the hints applied, which lies in
\* 1..100 and is 1 for a grid that is solved already.  Stated for an
\* evaluation of a parsed string and for the end of the loop over a chain.
C15_ScoreFormula ==
  /\ ret.op = "evaluate_difficulty" =>
       LET t == Replay(update_candidates(from_string(ret.arg)), << >>)
       IN /\ ret.out.score \in 1..100
          /\ IF t.stuck THEN ret.out = [score |-> 100, solvable |-> FALSE]
             ELSE ret.out = [score |-> ClaimedScore(t.hints), solvable |-> TRUE]
          /\ is_solved(from_string(ret.arg)) => ret.out = [score |-> 1, solvable |-> TRUE]
  /\ ret.op = "score" =>
       /\ ret.out.score \in 1..100
       /\ ret.out = [score |-> ClaimedScore(ret.hints), solvable |-> TRUE]

\* C13: get_hint returns what the first detector that finds something
\* returns, in the order naked single, hidden single, naked pair, pointing
\* pair, box/line reduction, hidden pair, naked triple, hidden triple, naked
\* quad, hidden quad, X-wing, Y-wing, simple coloring: every detector
\* before the returned one finds nothing, and get_hint returns none only
\* when all 13 find nothing.
C13_DetectorOrder ==
  ret.op = "get_hint" =>
    LET found == detector_sequence(ret.arg)
        hits == {k \in 1..Len(found) : found[k].some}
    IN IF hits = {} THEN ~ret.out.some
       ELSE /\ ret.out = found[Min(hits)]
            /\ \A k \in 1..(Min(hits) - 1) : ~found[k].some

\* get_hint has returned the hint of a detector other than the first while
\* a later detector finds something too.
C13_Witness ==
  /\ ret.op = "get_hint"
  /\ ret.out.some
  /\ LET found == detector_sequence(ret.arg)
     IN \E j, k \in 1..Len(found) :
          /\ 1 < j /\ j < k
          /\ found[j] = ret.out
          /\ found[k].some
          /\ found[k].technique # ret.out.technique

\* the (technique, weight) pairs of the spec's technique table
SpecTechniqueTable ==
  { <<"naked_single", 1>>, <<"hidden_single", 7>>, <<"naked_pair", 9>>,
    <<"pointing_pair", 12>>, <<"box_line_reduction", 14>>, <<"hidden_pair", 18>>,
    <<"naked_triple", 22>>, <<"hidden_triple", 28>>, <<"naked_quad", 35>>,
    <<"hidden_quad", 42>>, <<"x_wing", 46>>, <<"y_wing", 50>>,
    <<"simple_coloring", 54>> }

\* C14: every hint get_hint returns carries one of the 13 (technique name,
\* weight) pairs of the spec table; naked_single and hidden_single hints
\* hold placements only, every other hint eliminations only.
C14_HintTable ==
  (ret.op = "get_hint" /\ ret.out.some) =>
    /\ <<ret.out.technique, ret.out.difficulty>> \in SpecTechniqueTable
    /\ IF ret.out.technique \in {"naked_single", "hidden_single"}
       THEN Len(ret.out.placements) > 0 /\ Len(ret.out.eliminations) = 0
       ELSE Len(ret.out.placements) = 0 /\ Len(ret.out.eliminations) > 0

\* the empty cells of a grid
EmptyCells(g) == {i \in Cells : g.values[i] = 0}

\* the digits no peer of cell i carries
MissingDigits(g, i) == Digits \ PeerValues(g.values, i)

\* C16 as amended: on a grid with exactly one empty cell, candidates
\* computed by update_candidates, whose row, column and box miss exactly
\* one digit, get_hint returns a naked_single hint with the single placement
\* (the empty cell, the missing digit) and no elimination.
C16_LastCell ==
  (ret.op = "get_hint" /\ Cardinality(EmptyCells(ret.arg)) = 1) =>
    LET i == CHOOSE c \in Cells : ret.arg.values[c] = 0
    IN Cardinality(MissingDigits(ret.arg, i)) = 1 =>
         ret.out = Hint(1, "naked_single", << >>,
                        << <<i, CHOOSE d \in MissingDigits(ret.arg, i) : TRUE>> >>)

\* get_hint has answered on a grid with one empty cell that misses one
\* digit, reached by blanking a cell of the solved grid.
C16_Witness ==
  /\ ret.op = "get_hint"
  /\ Cardinality(EmptyCells(ret.arg)) = 1
  /\ \E i \in EmptyCells(ret.arg) : Cardinality(MissingDigits(ret.arg, i)) = 1
  /\ ret.out.some
  /\ is_solved(grid)

\* C16 as stated: on every grid with exactly one empty cell, candidates
\* computed by update_candidates, get_hint returns a naked_single hint
\* whose single placement is at the empty cell.
C16_LastCellAnyGrid ==
  (ret.op = "get_hint" /\ Cardinality(EmptyCells(ret.arg)) = 1) =>
    /\ ret.out.some
    /\ ret.out.technique = "naked_single"
    /\ \E d \in Digits : ret.out.placements = << <<CHOOSE c \in Cells : ret.arg.values[c] = 0, d>> >>

\* the puzzle's score lies in the tolerance window of run g
InWindow(g, puzzle) == Abs(evaluate_difficulty(puzzle).score - g.target) <= g.tolerance

\* C17 as amended: a run that stands at the head of one of the MaxSteps
\* steps of a round with a current puzzle whose score is in the tolerance
\* window returns that puzzle with its next move, and a run that has
\* returned starts no further round.
C17_ReturnAtStepHead ==
  [][\A run \in Runs :
       /\ (gen[run].pc = "step" /\ gen[run].step < MaxSteps
            /\ InWindow(gen[run], gen[run].current_grid) /\ gen'[run] # gen[run])
           => /\ gen'[run].pc = "done"
              /\ gen'[run].result = to_string(gen[run].current_grid)
              /\ gen'[run].round = gen[run].round
       /\ gen[run].pc = "done" => gen'[run] = gen[run]]_vars

\* generate has returned from inside a round the puzzle that was current,
\* and its score is in the window.
C17_Witness ==
  /\ gen[1].pc = "done"
  /\ gen[1].round < MaxRounds
  /\ gen[1].result = to_string(gen[1].current_grid)
  /\ InWindow(gen[1], from_string(gen[1].result))

\* C17 as stated: every puzzle that becomes the current puzzle is checked
\* against the tolerance window before its round ends, so whenever a
\* neighbour or a swap is accepted a step of the same round is still to come.
C17_EveryCurrentPuzzleChecked ==
  [][\A run \in Runs :
       (gen[run].pc = "attempt" /\ gen'[run].pc = "step"
        /\ gen'[run].current_grid # gen[run].current_grid)
       => gen'[run].step < MaxSteps]_vars

\* the distance of the puzzle's score from the target of run g
Distance(g, puzzle) == Abs(evaluate_difficulty(puzzle).score - g.target)

\* what a move of a run from g to h does to the tracked best puzzle: at the
\* head of a step that does not return, the current puzzle replaces it when
\* it is strictly nearer to the target than every puzzle tracked before;
\* every other move, the end of a round included, leaves it alone
BestUpdate(g, h) ==
  IF g.pc = "step" /\ g.step < MaxSteps /\ h.pc = "attempt"
  THEN IF Distance(g, g.current_grid) < g.best_diff_diff
       THEN h.best_puzzle = g.current_grid /\ h.best_diff_diff = Distance(g, g.current_grid)
       ELSE h.best_puzzle = g.best_puzzle /\ h.best_diff_diff = g.best_diff_diff
  ELSE h.best_puzzle = g.best_puzzle /\ h.best_diff_diff = g.best_diff_diff

\* C18: the best puzzle starts as the empty grid at distance 100 and
\* changes only at the head of a step, to the current puzzle, when that is
\* strictly nearer to the target: it is the earliest of the nearest puzzles
\* that were current at the head of a step, over all rounds.  After the
\* last round generate returns it, and it is not the empty grid.
C18_BestTracked ==
  /\ [](\A run \in Runs :
         /\ gen[run].pc = "round" /\ gen[run].round = 0 =>
              gen[run].best_puzzle = Grid_new /\ gen[run].best_diff_diff = 100
         /\ gen[run].pc = "done" /\ gen[run].round >= MaxRounds =>
              /\ gen[run].result = to_string(gen[run].best_puzzle)
              /\ Clues(gen[run].best_puzzle) # {}
              /\ gen[run].best_diff_diff = Distance(gen[run], gen[run].best_puzzle))
  /\ [][\A run \in Runs :
         gen[run].pc \notin {"new", "idle"} => BestUpdate(gen[run], gen'[run])]_vars

\* generate has returned after the last round a puzzle tracked in the
\* first round, while a later round stood at step heads with other puzzles.
C18_Witness ==
  /\ gen[1].pc = "done"
  /\ gen[1].round >= MaxRounds
  /\ gen[1].best_diff_diff < 100
  /\ gen[1].result = to_string(gen[1].best_puzzle)
  /\ gen[1].result # to_string(Grid_new)

\* the cells of the clue order the removal loop of run g has visited
Visited(g) == {g.clues[j] : j \in 1..(g.k - 1)}

\* what a turn of the removal loop from g to h does: the loop ends when
\* TargetClues clues remain or the order is exhausted, leaving the puzzle
\* as it is; else the next cell of the order is blanked, and stays blank
\* exactly when the puzzle without it has one completion
BaselineTurn(g, h) ==
  IF g.current_clues <= TargetClues \/ g.k > Len(g.clues)
  THEN h.pc = "step" /\ h.current_grid = g.current_grid
  ELSE LET cell == g.clues[g.k]
           blanked == [g.current_grid.values EXCEPT ![cell] = 0]
       IN /\ h.pc = "baseline" /\ h.k = g.k + 1
          /\ \A i \in Cells \ {cell} : h.current_grid.values[i] = g.current_grid.values[i]
          /\ h.current_grid.values[cell] =
               IF NumCompletions(blanked) = 1 THEN 0 ELSE g.full_grid.values[cell]

\* C19: the removal loop visits each cell once, in the shuffled order; a
\* blanked cell stays blank only if the puzzle is still unique, else its
\* digit is restored; the loop stops as soon as TargetClues clues remain.
\* During and after the loop the puzzle has at least TargetClues clues and
\* exactly one completion, and every clue is the full solution's digit.
C19_BaselineRemoval ==
  /\ [](\A run \in Runs :
         gen[run].pc = "baseline" \/ (gen[run].pc = "step" /\ gen[run].step = 0) =>
           LET g == gen[run]
           IN /\ {g.clues[j] : j \in 1..Len(g.clues)} = Cells /\ Len(g.clues) = SIZE
              /\ g.current_clues = Cardinality(Clues(g.current_grid))
              /\ g.current_clues >= TargetClues
              /\ \A i \in Cells : g.current_grid.values[i] \in {0, g.full_grid.values[i]}
              /\ \A i \in Cells \ Visited(g) : g.current_grid.values[i] # 0
              /\ NumCompletions(g.current_grid.values) = 1
              /\ Completions(g.current_grid.values) = {g.full_grid.values})
  /\ [][\A run \in Runs :
         (gen[run].pc = "baseline" /\ gen'[run] # gen[run])
         => BaselineTurn(gen[run], gen'[run])]_vars

\* The removal loop has stopped at TargetClues clues before the end of the
\* order, having restored the digit of a cell it had blanked.
C19_Witness ==
  /\ gen[1].pc = "step" /\ gen[1].step = 0
  /\ Cardinality(Clues(gen[1].current_grid)) = TargetClues
  /\ gen[1].k <= Len(gen[1].clues)
  /\ \E i \in Visited(gen[1]) : gen[1].current_grid.values[i] # 0

\* the neighbour run g proposes on draw r, as the attempt loop computes it
Proposal(g, r) == propose(g, g.current_diff - g.target, r)

\* C20: in every turn of the attempt loop, for every draw: when the current
\* score is above the target the neighbour is the current puzzle plus one
\* clue, at a cell empty in the current puzzle, with the full solution's
\* digit, and it goes on to be evaluated; when the score is at most the
\* target the neighbour is the current puzzle with one clue blanked, and it
\* goes on to be evaluated exactly when it still has one completion.
C20_NeighbourProposal ==
  \A run \in Runs :
    (gen[run].pc = "attempt" /\ gen[run].attempts < MaxTries) =>
      \A r \in 0..(Draws - 1) :
        LET g == gen[run]
            next == Proposal(g, r)
            changed == {i \in Cells : next.grid.values[i] # g.current_grid.values[i]}
        IN /\ Cardinality(changed) = 1
           /\ g.current_diff = evaluate_difficulty(g.current_grid).score
           /\ IF g.current_diff > g.target
              THEN /\ next.go
                   /\ \A i \in changed : /\ g.current_grid.values[i] = 0
                                          /\ next.grid.values[i] = g.full_grid.values[i]
              ELSE /\ \A i \in changed : /\ g.current_grid.values[i] # 0
                                          /\ next.grid.values[i] = 0
                   /\ next.go <=> NumCompletions(next.grid.values) = 1

\* A run whose score is at most the target stands in the attempt loop where
\* one draw blanks a clue the puzzle can lose and another a clue it cannot.
C20_Witness ==
  /\ gen[1].pc = "attempt"
  /\ gen[1].attempts < MaxTries
  /\ gen[1].current_diff <= gen[1].target
  /\ \E r \in 0..(Draws - 1) : Proposal(gen[1], r).go
  /\ \E r \in 0..(Draws - 1) : ~Proposal(gen[1], r).go

\* the distance from the target of run g of the score run h holds for its
\* current puzzle
Off(g, h) == Abs(h.current_diff - g.target)

\* what a turn of the attempt loop from g to h does to the current puzzle:
\* it stays as it is, with its score, or it becomes a plain neighbour
\* strictly nearer to the target, or, after SwapAfter turns, a puzzle with
\* one completion that is at most 2 farther from the target; a change ends
\* the step, and the score held is the score of the new puzzle
ClimbTurn(g, h) ==
  /\ g.attempts <= MaxTries /\ h.attempts <= MaxTries
  /\ Off(g, h) <= Off(g, g) + 2
  /\ IF h.current_grid = g.current_grid
     THEN h.current_diff = g.current_diff
     ELSE /\ g.attempts < MaxTries
          /\ h.pc = "step" /\ h.step = g.step + 1
          /\ h.current_diff = evaluate_difficulty(h.current_grid).score
          /\ \/ /\ Off(g, h) < Off(g, g)
                 /\ \E r \in 0..(Draws - 1) :
                      Proposal(g, r).go /\ Proposal(g, r).grid = h.current_grid
             \/ /\ g.attempts + 1 > SwapAfter
                 /\ NumCompletions(h.current_grid.values) = 1
                 /\ \A i \in Cells :
                      h.current_grid.values[i] \in {0, g.full_grid.values[i]}

C22_SwapKeepsClueCount ==
  [][\A run \in Runs :
       (/\ gen[run].pc = "attempt"
        /\ gen'[run].current_grid # gen[run].current_grid
        /\ Off(gen[run], gen'[run]) >= Off(gen[run], gen[run]))
       => LET old == gen[run].current_grid.values
              new == gen'[run].current_grid.values
              changed == {i \in Cells : new[i] # old[i]}
          IN /\ gen[run].attempts + 1 > SwapAfter
             /\ Cardinality(Clues(gen'[run].current_grid))
                  = Cardinality(Clues(gen[run].current_grid))
             /\ Cardinality(changed) = 2
             /\ \E a, b \in changed : old[a] = 0 /\ new[a] # 0 /\ old[b] # 0 /\ new[b] = 0]_vars

\* the empty cells of the row, the column and the box of a cell of grid g
EmptyInUnits(g, cell) == {i \in get_peers(cell) \cup {cell} : g.values[i] = 0}

\* the cells among them whose mask holds no digit other than d
Exhausted(g, cell, d) == {i \in EmptyInUnits(g, cell) : g.candidates[i] \ {d} = {}}

\* C23: update_candidates_after_move changes no value and no mask of a
\* placed cell or of a cell outside the row, column and box of the cell;
\* it returns true exactly when no empty cell of those units is left with
\* a zero mask, and then digit d is cleared in all of them; else d is
\* cleared in those up to the first cell (in index order) left with a zero
\* mask and the ones after it keep their masks.
C23_PropagateFrame ==
  ret.op = "update_candidates_after_move" =>
    LET a == ret.arg
        h == ret.out.grid
        d == ret.val
        T == EmptyInUnits(a, ret.cell)
        dead == Exhausted(a, ret.cell, d)
    IN /\ grid = h
       /\ h.values = a.values
       /\ \A i \in Cells \ T : h.candidates[i] = a.candidates[i]
       /\ ret.out.ok <=> dead = {}
       /\ ret.out.ok =>
            \A i \in T : h.candidates[i] = a.candidates[i] \ {d} /\ h.candidates[i] # {}
       /\ ~ret.out.ok =>
            \A i \in T : h.candidates[i] = IF i <= Min(dead) THEN a.candidates[i] \ {d}
                                           ELSE a.candidates[i]

\* A call has returned false at a cell whose mask became zero, and an empty
\* cell of the units after it still holds the digit.
C23_Witness ==
  /\ ret.op = "update_candidates_after_move"
  /\ ~ret.out.ok
  /\ \E i \in EmptyInUnits(ret.arg, ret.cell) :
       /\ i > Min(Exhausted(ret.arg, ret.cell, ret.val))
       /\ ret.val \in ret.out.grid.candidates[i]

\* the operations of a hint: its placements and its eliminations
Operations(hint) ==
  {hint.placements[k] : k \in 1..Len(hint.placements)}
    \cup {hint.eliminations[k] : k \in 1..Len(hint.eliminations)}

\* a hint is legal on grid g: it has an operation, and every operation
\* names an empty cell whose mask holds the digit
LegalHint(g, hint) ==
  hint.some =>
    /\ Operations(hint) # {}
    /\ \A op \in Operations(hint) : g.values[op[1]] = 0 /\ op[2] \in g.candidates[op[1]]

\* the number of set candidate bits of grid g
SetBits(g) == Cardinality({p \in Cells \X Digits : p[2] \in g.candidates[p[1]]})

\* grid h has fewer empty cells or fewer set candidate bits than grid g
Reduced(g, h) ==
  \/ Cardinality(EmptyCells(h)) < Cardinality(EmptyCells(g))
  \/ SetBits(h) < SetBits(g)

\* C24: on a grid whose candidates come from update_candidates followed by
\* applied hints, the hint of get_hint and the hint of each of the 13
\* detectors has a placement or an elimination, every one of them at an
\* empty cell whose mask holds the digit, and the grid with the hint
\* applied has fewer empty cells or fewer set candidate bits.
C24_HintsAreLegal ==
  /\ ret.op \in {"update_candidates", "get_hint"} =>
       \A hint \in {get_hint(grid)} \cup detector_hints(grid) :
         /\ LegalHint(grid, hint)
         /\ hint.some => Reduced(grid, apply_hint(grid, hint))
  /\ (ret.op = "get_hint" /\ ret.out.some) =>
       LegalHint(ret.arg, ret.out) /\ Reduced(ret.arg, grid)

\* A hint that only eliminates has been applied: the grid has as many empty
\* cells as before and fewer set candidate bits.
C24_Witness ==
  /\ ret.op = "get_hint"
  /\ ret.out.some
  /\ Len(ret.out.placements) = 0
  /\ Len(ret.out.eliminations) > 0
  /\ EmptyCells(grid) = EmptyCells(ret.arg)
  /\ SetBits(grid) < SetBits(ret.arg)

\* grid h keeps every placed value of grid g and sets no candidate bit that
\* is clear in g
NoRegress(g, h) ==
  \A i \in Cells :
    /\ h.candidates[i] \subseteq g.candidates[i]
    /\ g.values[i] # 0 => h.values[i] = g.values[i]

\* the empty cells plus the set candidate bits of grid g
Potential(g) == Cardinality(EmptyCells(g)) + SetBits(g)

\* C25: evaluate_difficulty returns on every input.  Every turn of its
\* loop that does not return applies a hint that fills an empty cell or
\* clears a set candidate bit, and empties no cell and sets no bit; the
\* hints applied plus the empty cells and set bits left never exceed the
\* empty cells and set bits update_candidates left, so there are at most
\* SIZE + SIZE * SIDE hints.
C25_EvaluateTerminates ==
  /\ [][(ret.op = "eval" /\ ret'.op = "eval")
         => /\ Reduced(grid, grid')
            /\ NoRegress(grid, grid')
            /\ ret'.steps = ret.steps + 1]_vars
  /\ [](ret.op = "eval" =>
         /\ ret.steps + Potential(grid) <= Potential(update_candidates(ret.input))
         /\ ret.steps <= SIZE + SIZE * SIDE)
  /\ (ret.op = "eval") ~> (ret.op = "returned")

\* The loop has returned stuck, after more than one hint, on a grid whose
\* givens repeat a digit in a unit.
C25_Witness ==
  /\ ret.op = "returned"
  /\ ~ret.out.solvable
  /\ ret.steps > 1
  /\ \E i \in Cells : ret.input.values[i] # 0
                       /\ ret.input.values[i] \in PeerValues(ret.input.values, i)

\* no given of grid g is carried by a peer of its cell
NoRepeat(g) ==
  \A i \in Cells : g.values[i] # 0 => g.values[i] \notin PeerValues(g.values, i)

\* grid g agrees with the filled grid c: every filled cell carries c's digit
\* and the mask of every empty cell holds c's digit
Agrees(g, c) ==
  \A i \in Cells : IF g.values[i] # 0 THEN g.values[i] = c[i] ELSE c[i] \in g.candidates[i]

\* C26: on an input whose givens repeat no digit in a row, column or box,
\* when evaluate_difficulty returns solvable = true the input has exactly
\* one completion and the filled grid the loop reached is that completion;
\* at every turn of the loop the grid agrees with every completion of the
\* input: placed values are the completion's digits and the mask of every
\* empty cell holds the completion's digit.
C26_SolvableMeansUnique ==
  /\ (ret.op = "eval" /\ NoRepeat(ret.input))
       => \A c \in Completions(ret.input.values) : Agrees(grid, c)
  /\ (ret.op = "returned" /\ ret.out.solvable /\ NoRepeat(ret.input))
       => /\ is_solved(grid)
          /\ Completions(ret.input.values) = {grid.values}

\* The loop has returned solvable = true after more than one hint on an
\* input without repeated givens.
C26_Witness ==
  /\ ret.op = "returned"
  /\ ret.out.solvable
  /\ ret.steps > 1
  /\ NoRepeat(ret.input)
  /\ grid.values # ret.input.values

\* ten times 0.7 * max_w + 0.2 * avg_w + diversity, times steps, in whole numbers
TenfoldWeighted(r) ==
  7 * r.max_difficulty * r.steps + 2 * r.total_difficulty
    + 5 * Min({Cardinality(r.techniques_used), 10}) * r.steps

\* C27: the result of evaluate_difficulty is score 100 with solvable false
\* or a score in 1..54 with solvable true; every hint weight is at most 54
\* and 0.7 * max_w + 0.2 * avg_w + diversity is at most 53.6.
C27_ScoreRange ==
  /\ \A hint \in DetectorHints : hint.difficulty <= 54
  /\ ret.steps > 0 => TenfoldWeighted(ret) <= 536 * ret.steps
  /\ ret.op = "weighed" =>
       \/ ret.out.score = 100 /\ ~ret.out.solvable
       \/ ret.out.score \in 1..54 /\ ret.out.solvable

\* A chain of MaxChain hints of three techniques, simple_coloring among
\* them, has been scored 50.
C27_Witness ==
  /\ ret.op = "weighed"
  /\ ret.out.solvable
  /\ ret.steps = MaxChain
  /\ ret.max_difficulty = 54
  /\ Cardinality(ret.techniques_used) = 3
  /\ ret.out.score = 50

\* score s is inside the tolerance window of the call r
ScoreInWindow(r, s) == Abs(s - r.target) <= r.tolerance

\* C28: for diabolical, extreme, master and grandmaster no score
\* evaluate_difficulty can return is inside the tolerance window, generate
\* never returns from inside the hill-climb loop, and every call returns
\* after all the rounds the puzzle it tracked as best, whose score is
\* outside the window.
C28_HardCategoriesFallBack ==
  /\ [](\A s \in ScoreRange : ~ScoreInWindow(ret, s))
  /\ [](ret.returned # "in the loop")
  /\ [](ret.pc = "done" => /\ ret.round = MaxRounds
                            /\ ret.best_tracked
                            /\ ret.result = ret.best_score
                            /\ ret.best_diff_diff = Abs(ret.best_score - ret.target)
                            /\ ~ScoreInWindow(ret, ret.result))
  /\ <>(ret.pc = "done")

\* A grandmaster call has returned after the rounds a puzzle the hint
\* engine could not solve while the last round ended on another score.
C28_Witness ==
  /\ ret.pc = "done"
  /\ ret.category = "grandmaster"
  /\ ret.returned = "after the rounds"
  /\ ret.result = 100
  /\ ret.best_diff_diff = 2
====
